---- MODULE Spec2Model ----
(***************************************************************************)
(* The in-process ledger of converter/blockchain.py (class Blockchain)     *)
(* and the background miner of converter/views.py (async_mine_block).      *)
(*                                                                         *)
(* Representation.                                                         *)
(*  - Python strings are sequences of character codes (integers), so that  *)
(*    slicing (s[:8]) is SubSeq and every digest is comparable with '0'.   *)
(*  - None is the empty sequence and a present value v is <<v>>.           *)
(*  - Python lists of transactions are objects on a heap (lists): a block  *)
(*    stores the identity of its list, exactly as create_block stores the  *)
(*    reference self.transactions in the block's dict.                     *)
(*  - hash(block) is sha256 of json.dumps(block, sort_keys=True).  The     *)
(*    JSON text is modelled field by field in sorted key order; sha256 is  *)
(*    taken to be collision free, so a digest is identified with the text  *)
(*    it was computed from.                                                *)
(*  - The proof-of-work digest sha256(str(n)) is the real one: NibbleZero1 *)
(*    .. NibbleZero3 list the integers of -800..800 whose SHA-256 digest   *)
(*    starts with one, two and three '0' characters.                       *)
(***************************************************************************)
EXTENDS Integers, Sequences, FiniteSets, TLC

VARIABLES
    chain,          \* self.chain: sequence of blocks
    transactions,   \* self.transactions: identity of the pool's list object
    lists,          \* heap of list objects: lists[id] is the list's content
    difficulty,     \* self.difficulty
    nodes,          \* self.nodes
    cachedBlock,    \* self._cached_previous_block
    cachedHash,     \* self._cached_previous_hash
    now,            \* a time datetime.datetime.now() has not yet shown
    last,           \* the last completed call of the public interface
    lock,           \* views.mining_lock: None or <<holder>>
    pc,             \* per thread: position in its code
    loc,            \* per thread: local variables
    accepted        \* history: the transactions add_transaction has appended

vars == <<chain, transactions, lists, difficulty, nodes, cachedBlock,
          cachedHash, now, last, lock, pc, loc, accepted>>

ledgerVars == <<chain, transactions, lists, difficulty, nodes, cachedBlock,
                cachedHash, now>>

threadVars == <<lock, pc, loc, accepted>>

-----------------------------------------------------------------------------
(* Bounds of the model *)

\* the calls that stamp a block (create_block, and __init__ on a ledger in
\* use) are capped
MaxMined == 2
\* ... and in the specifications that also vary the peers
PeerMined == MaxMined - 1
\* pending transactions in the pool are capped
MaxPool == 2
\* ... and in the specifications that also vary the peers
PeerPool == MaxPool - 1

\* previous proofs handed to proof_of_work lie in -MaxPrevious..MaxPrevious
MaxPrevious == 27

\* difficulties handed to proof_of_work lie in 0..MaxDifficulty
MaxDifficulty == 3

-----------------------------------------------------------------------------
(* Values *)

None == <<>>
Some(v) == <<v>>
IsNone(o) == o = <<>>
The(o) == o[1]

Last(s) == s[Len(s)]

\* Python's s[:n]
Prefix(s, n) == SubSeq(s, 1, IF Len(s) < n THEN Len(s) ELSE n)

\* the one-character string '0' (code 48): previous_hash of the genesis block
ZeroHash == <<48>>
\* the empty string ''
EmptyStr == <<>>

RECURSIVE Flatten(_)
Flatten(ss) == IF ss = <<>> THEN <<>> ELSE Head(ss) \o Flatten(Tail(ss))

-----------------------------------------------------------------------------
(* sha256(str(n)).hexdigest(): leading '0' characters, for n in -800..800 *)

NibbleZero1 ==
    {-794, -785, -777, -775, -769, -767, -736, -718, -714,
     -666, -660, -641, -638, -617, -615, -588, -585, -583, -574, -535, -533,
     -511, -457, -434, -433, -425, -421, -410, -407, -403, -390, -351, -348,
     -344, -321, -314, -276, -274, -262, -261, -233, -222, -204, -195, -73,
     -53, -39, -20, -6, 39, 49, 51, 55, 109, 125, 146, 149, 152, 156, 178,
     211, 216, 225, 229, 235, 245, 286, 290, 305, 327, 329, 331, 334, 342,
     344, 348, 351, 354, 356, 367, 374, 394, 399, 425, 431, 437, 439, 445,
     463, 471, 500, 519, 520, 549, 559, 561, 570, 584, 610, 636, 664, 671,
     683, 719, 722, 723, 743, 748, 766, 771, 774, 780, 791}
NibbleZero2 == {-533, -457, 286, 671}
NibbleZero3 == {-533}

InDigestTable(n) == n \in -800..800

\* number of leading '0' characters of sha256(str(n)).hexdigest(), up to 3
LeadingZeros(n) ==
    IF n \in NibbleZero3 THEN 3
    ELSE IF n \in NibbleZero2 THEN 2
    ELSE IF n \in NibbleZero1 THEN 1
    ELSE 0

\* the number of characters of a SHA-256 hexdigest
DigestLength == 64

\* sha256(str(n)).hexdigest() as far as a comparison with '0' * d can tell:
\* its leading '0' characters (code 48), then characters that are not '0'
hexdigest(n) ==
    [i \in 1..DigestLength |-> IF i <= LeadingZeros(n) THEN 48 ELSE 102]

\* '0' * d
target(d) == [i \in 1..d |-> 48]

\* hash_operation[:d] == '0' * d
DigestMeets(proof, previous_proof, d) ==
    Prefix(hexdigest(proof * proof - previous_proof * previous_proof), d)
        = target(d)

\* blockchain.py proof_of_work: linear scan from 1
RECURSIVE proof_scan(_, _, _)
\* a search that stops at its first candidate after the previous proof
proof_without_search(previous_proof, d) == previous_proof + 1

proof_scan(new_proof, previous_proof, d) ==
    IF DigestMeets(new_proof, previous_proof, d)
    THEN new_proof
    ELSE proof_scan(new_proof + 1, previous_proof, d)

\* a search that returns the last candidate of a range that meets the
\* target, not the first
proof_not_least(previous_proof, d) ==
    LET S == {p \in 1..2 * MaxPrevious :
                /\ InDigestTable(p * p - previous_proof * previous_proof)
                /\ DigestMeets(p, previous_proof, d)}
    IN  CHOOSE p \in S : \A r \in S : r <= p

proof_of_work(previous_proof, d) == proof_scan(1, previous_proof, d)

\* the search for previous_proof at difficulty d ends on a candidate whose
\* digest, and the digest of every candidate before it, is in the table
Scannable(previous_proof, d) ==
    \E p \in 1..2 * MaxPrevious :
        /\ \A k \in 1..p :
              InDigestTable(k * k - previous_proof * previous_proof)
        /\ DigestMeets(p, previous_proof, d)

-----------------------------------------------------------------------------
(* Transactions: blockchain.py add_transaction, lines 80-94 *)

\* metadata.get(key, default)
Get(metadata, key, default) ==
    IF key \in DOMAIN metadata THEN metadata[key] ELSE default

\* Python truth value of the metadata argument: None and {} are false
Truthy(metadata) == ~IsNone(metadata) /\ DOMAIN The(metadata) # {}

\* the dict with the test of line 82 made on the sender: the receiver is
\* cut only when the sender is long
new_transaction_testing_sender(sender, receiver, amount, metadata) ==
    LET base == [s |-> IF Len(sender) > 8 THEN Prefix(sender, 8) ELSE sender,
                 r |-> IF Len(sender) > 8 THEN Prefix(receiver, 8) ELSE receiver,
                 a |-> amount,
                 type |-> IF Truthy(metadata) THEN "watermark" ELSE "mining"]
    IN  IF Truthy(metadata)
        THEN LET m == The(metadata)
             IN  [s |-> base.s, r |-> base.r, a |-> base.a, type |-> base.type,
                  img_hash |-> Prefix(Get(m, "image_hash", EmptyStr), 16),
                  msg_hash |-> Prefix(Get(m, "message_hash", EmptyStr), 16),
                  timestamp |-> Get(m, "created_at", EmptyStr),
                  size |-> Get(m, "file_size", 0)]
        ELSE base

\* the dict built by add_transaction
new_transaction(sender, receiver, amount, metadata) ==
    LET base == [s |-> IF Len(sender) > 8 THEN Prefix(sender, 8) ELSE sender,
                 r |-> IF Len(receiver) > 8 THEN Prefix(receiver, 8) ELSE receiver,
                 a |-> amount,
                 type |-> IF Truthy(metadata) THEN "watermark" ELSE "mining"]
    IN  IF Truthy(metadata)
        THEN LET m == The(metadata)
             IN  [s |-> base.s, r |-> base.r, a |-> base.a, type |-> base.type,
                  img_hash |-> Prefix(Get(m, "image_hash", EmptyStr), 16),
                  msg_hash |-> Prefix(Get(m, "message_hash", EmptyStr), 16),
                  timestamp |-> Get(m, "created_at", EmptyStr),
                  size |-> Get(m, "file_size", 0)]
        ELSE base

-----------------------------------------------------------------------------
(* Canonical hasher: blockchain.py hash, lines 56-58 *)

\* JSON text of a string: its length and its characters
SerStr(s) == <<Len(s)>> \o s

TypeCode(t) == IF t = "watermark" THEN 1 ELSE 0

\* JSON text of a transaction, keys in sorted order:
\* a, img_hash, msg_hash, r, s, size, timestamp, type
SerTx(tx) ==
    LET wm == "img_hash" \in DOMAIN tx
    IN  <<Cardinality(DOMAIN tx), tx.a>>
        \o (IF wm THEN SerStr(tx.img_hash) \o SerStr(tx.msg_hash) ELSE <<>>)
        \o SerStr(tx.r) \o SerStr(tx.s)
        \o (IF wm THEN <<tx.size>> \o SerStr(tx.timestamp) ELSE <<>>)
        \o <<TypeCode(tx.type)>>

SerTxs(txs) == <<Len(txs)>> \o Flatten([i \in 1..Len(txs) |-> SerTx(txs[i])])

\* hash of a block whose transactions list has content txs; keys in sorted
\* order: index, previous_hash, proof, timestamp, transactions
hash_of(block, txs) ==
    <<block.index>> \o SerStr(block.previous_hash)
    \o <<block.proof, block.timestamp>> \o SerTxs(txs)

\* a block as JSON sees it: the transactions list by content
BlockView(block) == [block EXCEPT !.transactions = lists[block.transactions]]

ChainView(c) == [i \in 1..Len(c) |-> BlockView(c[i])]

\* self.hash(block) for a block given by content
hash(view) == hash_of(view, view.transactions)

\* A dict as Python keeps it: the keys in insertion order (keys) and the
\* value of each key (vals).  The field names of blocks and transactions in
\* the order sort_keys=True puts them:
SortedNames ==
    <<"a", "img_hash", "index", "msg_hash", "previous_hash", "proof", "r",
      "s", "size", "timestamp", "transactions", "type">>

RankOf ==
    [key \in {SortedNames[i] : i \in DOMAIN SortedNames} |->
        CHOOSE i \in DOMAIN SortedNames : SortedNames[i] = key]

Rank(key) == RankOf[key]

\* sorted(keys)
SortKeys(keys) ==
    LET S == {keys[i] : i \in DOMAIN keys}
    IN  SelectSeq(SortedNames, LAMBDA key : key \in S)

\* json.dumps without sort_keys: the keys are written in insertion order
insertion_keys(dict) == dict.keys

\* the order in which json.dumps(..., sort_keys=True) writes the keys of a
\* dict (line 57)
json_keys(dict) == SortKeys(dict.keys)

\* JSON text of one key of a transaction dict with its value
dumps_tx_item(key, value) ==
    <<Rank(key)>> \o (IF key \in {"a", "size"} THEN <<value>>
                      ELSE IF key = "type" THEN <<TypeCode(value)>>
                      ELSE SerStr(value))

\* JSON text of a transaction dict
dumps_tx(dict) ==
    LET keys == json_keys(dict)
    IN  <<Len(keys)>>
        \o Flatten([i \in 1..Len(keys) |->
                        dumps_tx_item(keys[i], dict.vals[keys[i]])])

\* JSON text of one key of a block dict with its value
dumps_block_item(key, value) ==
    <<Rank(key)>>
    \o (IF key = "transactions"
        THEN <<Len(value)>>
             \o Flatten([i \in 1..Len(value) |-> dumps_tx(value[i])])
        ELSE IF key = "previous_hash" THEN SerStr(value)
        ELSE <<value>>)

\* self.hash(block) for a block dict given with its insertion orders
hash_dict(dict) ==
    LET keys == json_keys(dict)
    IN  <<Len(keys)>>
        \o Flatten([i \in 1..Len(keys) |->
                        dumps_block_item(keys[i], dict.vals[keys[i]])])

\* the keys of a block and of a transaction in the order the code inserts
\* them (lines 21-25, 81-84 and 90-93)
BlockNames == <<"index", "timestamp", "proof", "previous_hash", "transactions">>
TxNames ==
    <<"s", "r", "a", "type", "img_hash", "msg_hash", "timestamp", "size">>

Reverse(seq) == [i \in 1..Len(seq) |-> seq[Len(seq) + 1 - i]]

\* the names of a sequence that are fields of the record rec, in its order
NamesOf(names, rec) == SelectSeq(names, LAMBDA key : key \in DOMAIN rec)

\* insertion orders of the fields of rec: as the code inserts them, the
\* reverse of that, and sorted by name
InsertionOrders == {"code", "reverse", "sorted"}

Inserted(names, rec, order) ==
    IF order = "code" THEN NamesOf(names, rec)
    ELSE IF order = "reverse" THEN Reverse(NamesOf(names, rec))
    ELSE SortKeys(NamesOf(names, rec))

\* the block view as a dict built in the given insertion order, the block
\* and each of its transactions
as_dict(view, order) ==
    [keys |-> Inserted(BlockNames, view, order),
     vals |-> [view EXCEPT !.transactions =
                  [i \in 1..Len(view.transactions) |->
                      [keys |-> Inserted(TxNames, view.transactions[i], order),
                       vals |-> view.transactions[i]]]]]

\* the block view of a dict: its fields without their insertion orders
as_view(dict) ==
    [dict.vals EXCEPT !.transactions =
        [i \in 1..Len(dict.vals.transactions) |->
            dict.vals.transactions[i].vals]]

-----------------------------------------------------------------------------
(* Chain validation: blockchain.py is_chain_valid, lines 60-76 *)

\* the while loop from block_index = i (1-based here), previous_block = c[i-1]
RECURSIVE valid_from(_, _, _)
valid_from(c, i, d) ==
    IF i > Len(c) THEN TRUE
    ELSE IF c[i].previous_hash # hash(c[i - 1]) THEN FALSE
    ELSE IF ~DigestMeets(c[i].proof, c[i - 1].proof, d) THEN FALSE
    ELSE valid_from(c, i + 1, d)

\* the while loop raises KeyError at a block without 'previous_hash' (line
\* 66) or, once the hashes agree, without 'proof' (lines 68-69); a block
\* that lacks a field is hashed only if a later block is reached
RECURSIVE raises_from(_, _, _)
raises_from(c, i, d) ==
    IF i > Len(c) THEN FALSE
    ELSE IF "previous_hash" \notin DOMAIN c[i] THEN TRUE
    ELSE IF c[i].previous_hash # hash(c[i - 1]) THEN FALSE
    ELSE IF "proof" \notin DOMAIN c[i - 1] \/ "proof" \notin DOMAIN c[i] THEN TRUE
    ELSE IF ~DigestMeets(c[i].proof, c[i - 1].proof, d) THEN FALSE
    ELSE raises_from(c, i + 1, d)

\* chain[0] of an empty list raises IndexError (line 61)
is_chain_valid_raises(c, d) == Len(c) = 0 \/ raises_from(c, 2, d)

\* the exception is_chain_valid raises
is_chain_valid_error(c) == IF Len(c) = 0 THEN "IndexError" ELSE "KeyError"

\* is_chain_valid(chain) for a chain given by content, when it does not raise
is_chain_valid(c, d) == valid_from(c, 2, d)

-----------------------------------------------------------------------------
(* Inputs *)

\* Blockchain(difficulty=...): the difficulties the digest table covers
Difficulties == {1}

\* 'Al', 'Bo' and twenty 'a' / twenty 'b' (tests.py, lines 288-289)
ShortSender == <<65, 108>>
ShortReceiver == <<66, 111>>
LongSender == [i \in 1..20 |-> 97]
LongReceiver == [i \in 1..20 |-> 98]

\* an image hash of seventeen characters and a message hash of two
FullMetadata ==
    [image_hash |-> [i \in 1..17 |-> 102], message_hash |-> <<99, 100>>,
     created_at |-> <<55>>, file_size |-> 1024]

\* arguments of add_transaction
TxInputs ==
    {[sender |-> ShortSender, receiver |-> ShortReceiver, amount |-> 50,
      metadata |-> None],
     [sender |-> LongSender, receiver |-> LongReceiver, amount |-> 5,
      metadata |-> Some(FullMetadata)]}

\* a single submission, for the specifications that also vary the peers
OneInput ==
    {[sender |-> ShortSender, receiver |-> ShortReceiver, amount |-> 50,
      metadata |-> None]}

\* the string of the first n lower-case letters
Letters(n) == [i \in 1..n |-> 96 + i]

\* the empty mapping {}
EmptyMetadata == <<>>

\* a mapping with a message hash of sixteen characters and nothing else
PartialMetadata == [message_hash |-> Letters(16)]

\* a mapping with an image hash of sixteen characters, a message hash of
\* seventeen, no timestamp and size 0
LongHashMetadata ==
    [image_hash |-> Letters(16), message_hash |-> Letters(17),
     created_at |-> EmptyStr, file_size |-> 0]

\* arguments of add_transaction around the limit of eight characters, with
\* no metadata, an empty mapping, a mapping of one key and full ones; each
\* argument is Some(value), as AddTransactionAny takes it
SubmitInputs ==
    {[sender |-> Some(EmptyStr), receiver |-> Some(Letters(2)),
      amount |-> Some(50), metadata |-> None],
     [sender |-> Some(Letters(8)), receiver |-> Some(Letters(9)),
      amount |-> Some(5), metadata |-> None],
     [sender |-> Some(Letters(9)), receiver |-> Some(Letters(8)),
      amount |-> Some(0), metadata |-> Some(EmptyMetadata)],
     [sender |-> Some(Letters(20)), receiver |-> Some(Letters(20)),
      amount |-> Some(100), metadata |-> Some(FullMetadata)],
     [sender |-> Some(Letters(2)), receiver |-> Some(EmptyStr),
      amount |-> Some(-1), metadata |-> Some(PartialMetadata)],
     [sender |-> Some(Letters(10)), receiver |-> Some(Letters(1)),
      amount |-> Some(7), metadata |-> Some(LongHashMetadata)]}

\* arguments of add_node: urlparse(address) by its parts
Addresses ==
    {[scheme |-> "http", netloc |-> "peer1:5000", path |-> ""],
     [scheme |-> "http", netloc |-> "peer1:5000", path |-> "/get_chain"],
     [scheme |-> "http", netloc |-> "peer2:5000", path |-> ""]}

\* further arguments of add_node: 'peer1:5000' with no scheme, which urlparse
\* splits into scheme 'peer1' and path '5000' with an empty netloc
RegistryAddresses ==
    Addresses \cup {[scheme |-> "peer1", netloc |-> "", path |-> "5000"]}

\* a single peer address
OneAddress == {[scheme |-> "http", netloc |-> "peer1:5000", path |-> ""]}

\* urlparse(address).netloc
netloc_of(address) == address.netloc

-----------------------------------------------------------------------------
(* Peers: what GET http://<node>/get_chain may answer *)

PeerSender(node) == IF node = "peer1:5000" THEN <<49>> ELSE <<50>>

PeerTx(node, k) == [s |-> PeerSender(node), r |-> ShortReceiver, a |-> k,
                    type |-> "mining"]

GenesisView ==
    [index |-> 1, timestamp |-> 0, proof |-> 1, previous_hash |-> ZeroHash,
     transactions |-> <<>>]

\* the chain of n blocks an honest peer running this code has mined
RECURSIVE PeerChain(_, _, _)
PeerChain(node, n, d) ==
    IF n = 1 THEN <<GenesisView>>
    ELSE LET c == PeerChain(node, n - 1, d)
             prev == c[n - 1]
         IN  Append(c, [index |-> n, timestamp |-> 0,
                        proof |-> proof_of_work(prev.proof, d),
                        previous_hash |-> hash(prev),
                        transactions |-> <<PeerTx(node, n)>>])

\* a peer chain with the amount of the transaction of block 2 altered
TamperedChain(node, n, d) ==
    [PeerChain(node, n, d) EXCEPT ![2].transactions[1].a = 9999]

\* a chain of two linked blocks whose second block carries index 7
MisnumberedChain(node, d) ==
    [PeerChain(node, 2, d) EXCEPT ![2].index = 7]

\* a block without its 'proof' key
WithoutProof(block) == [k \in DOMAIN block \ {"proof"} |-> block[k]]

\* a block without its 'previous_hash' key
WithoutPreviousHash(block) ==
    [k \in DOMAIN block \ {"previous_hash"} |-> block[k]]

\* a chain of two blocks whose second block lacks 'proof'
MalformedChain(node, d) ==
    [PeerChain(node, 2, d) EXCEPT ![2] = WithoutProof(@)]

\* a reported length larger than any chain of the model
InflatedLength == 99

\* responses of a peer: requests.get raises, or answers status/length/chain
PeerResponses(node, d) ==
    {[raises |-> TRUE, status |-> 0, length |-> 0, chain |-> <<>>],
     [raises |-> FALSE, status |-> 500, length |-> 0, chain |-> <<>>],
     [raises |-> FALSE, status |-> 200, length |-> 2,
      chain |-> PeerChain(node, 2, d)],
     [raises |-> FALSE, status |-> 200, length |-> 3,
      chain |-> PeerChain(node, 3, d)],
     [raises |-> FALSE, status |-> 200, length |-> 3,
      chain |-> TamperedChain(node, 3, d)],
     [raises |-> FALSE, status |-> 200, length |-> InflatedLength,
      chain |-> PeerChain(node, 1, d)],
     [raises |-> FALSE, status |-> 200, length |-> InflatedLength,
      chain |-> <<>>]}

\* further responses: a linked chain with a wrong index, a block lacking a key
OddResponses(node, d) ==
    {[raises |-> FALSE, status |-> 200, length |-> 2,
      chain |-> MisnumberedChain(node, d)],
     [raises |-> FALSE, status |-> 200, length |-> 2,
      chain |-> MalformedChain(node, d)]}

\* the registered peers of the model and their possible answers
Peers == {netloc_of(address) : address \in Addresses}

ResponseTable ==
    [d \in Difficulties |-> [n \in Peers |-> PeerResponses(n, d)]]

FullResponseTable ==
    [d \in Difficulties |->
        [n \in Peers |-> PeerResponses(n, d) \cup OddResponses(n, d)]]

\* the answers of peers that compete: valid chains of two and of three
\* blocks, a tampered chain of three, and one block under an inflated length
CompetingResponses(node, d) ==
    {[raises |-> FALSE, status |-> 200, length |-> 2,
      chain |-> PeerChain(node, 2, d)],
     [raises |-> FALSE, status |-> 200, length |-> 3,
      chain |-> PeerChain(node, 3, d)],
     [raises |-> FALSE, status |-> 200, length |-> 3,
      chain |-> TamperedChain(node, 3, d)],
     [raises |-> FALSE, status |-> 200, length |-> InflatedLength,
      chain |-> PeerChain(node, 1, d)]}

CompetingTable ==
    [d \in Difficulties |-> [n \in Peers |-> CompetingResponses(n, d)]]

\* the orders in which `for node in network` may visit a set
Orders(S) ==
    {o \in [1..Cardinality(S) -> S] : \A i, j \in DOMAIN o : i # j => o[i] # o[j]}

-----------------------------------------------------------------------------
(* The ledger: class Blockchain, one call at a time *)

\* what a completed call returned: ret is None or <<value>>
Returned(op, ret) == [op |-> op, ret |-> ret, raised |-> FALSE]
Raised(op, error) ==
    [op |-> op, ret |-> None, raised |-> TRUE, error |-> error]

\* the thread that calls replace_chain
Resolvers == {"c1"}

\* local variables of a thread; net and todo are the set `network` of
\* replace_chain as it was when the loop began and what is left to visit,
\* len the length read at line 119, seen and got the nodes visited so far
\* and their answers
NoLocals ==
    [back |-> "", tx |-> None, txl |-> 0, tmp |-> None, res |-> None,
     proof |-> 0, hsh |-> None, idx |-> 0, blk |-> None,
     st |-> None, net |-> {}, todo |-> {}, len |-> 0, seen |-> <<>>,
     got |-> <<>>, arg |-> 0]

\* blockchain.py __init__, lines 11-18: the genesis block takes the first
\* list object, the pool a second one; no replace_chain call is under way
Init ==
    /\ chain = <<[index |-> 1, timestamp |-> 0, proof |-> 1,
                  previous_hash |-> ZeroHash, transactions |-> 1]>>
    /\ lists = <<<<>>, <<>>>>
    /\ transactions = 2
    /\ difficulty \in Difficulties
    /\ nodes = {}
    /\ cachedBlock = None
    /\ cachedHash = None
    /\ now = 1
    /\ last = Returned("init", None)
    /\ lock = None
    /\ pc = [t \in Resolvers |-> "idle"]
    /\ loc = [t \in Resolvers |-> NoLocals]
    /\ accepted = {}

\* str(datetime.datetime.now()) at line 22 reads the wall clock: it shows a
\* time it has shown to a call before (it has not moved since, or it was
\* set back) or a new one.  Every reading moves now one up, so now is a
\* time the clock has not yet shown, and a cap on now caps the calls that
\* read the clock
Readings == 0..now

\* the block dict create_block builds (lines 21-25)
new_block(proof, previous_hash, timestamp) ==
    [index |-> Len(chain) + 1, timestamp |-> timestamp, proof |-> proof,
     previous_hash |-> previous_hash, transactions |-> transactions]

\* create_block without line 26: the pool is left as it is
create_block_keeping_pool(proof, previous_hash) ==
    \E timestamp \in Readings :
        /\ chain' = Append(chain, new_block(proof, previous_hash, timestamp))
        /\ lists' = lists
        /\ transactions' = transactions
        /\ cachedBlock' = None
        /\ cachedHash' = None
        /\ now' = now + 1

\* create_block without lines 29-30: the cache slots are left as they are
create_block_keeping_cache(proof, previous_hash) ==
    \E timestamp \in Readings :
        /\ chain' = Append(chain, new_block(proof, previous_hash, timestamp))
        /\ lists' = Append(lists, <<>>)
        /\ transactions' = Len(lists) + 1
        /\ cachedBlock' = cachedBlock
        /\ cachedHash' = cachedHash
        /\ now' = now + 1

\* blockchain.py create_block, lines 20-31
create_block(proof, previous_hash) ==
    \E timestamp \in Readings :
        /\ chain' = Append(chain, new_block(proof, previous_hash, timestamp))
        /\ lists' = Append(lists, <<>>)
        /\ transactions' = Len(lists) + 1
        /\ cachedBlock' = None
        /\ cachedHash' = None
        /\ now' = now + 1

\* the cache slot after get_previous_block (lines 34-35)
block_cache_after_read ==
    IF IsNone(cachedBlock) THEN Some(Last(chain)) ELSE cachedBlock

\* blockchain.py get_previous_block, lines 33-36: the block it returns
get_previous_block == The(block_cache_after_read)

\* blockchain.py get_previous_hash_cached, lines 38-41: the digest it returns
get_previous_hash_cached ==
    IF IsNone(cachedHash)
    THEN hash(BlockView(get_previous_block))
    ELSE The(cachedHash)

\* a call of get_previous_block()
GetPreviousBlock ==
    /\ cachedBlock' = block_cache_after_read
    /\ last' = Returned("get_previous_block", Some(get_previous_block))
    /\ UNCHANGED <<chain, transactions, lists, difficulty, nodes, cachedHash,
                   now, threadVars>>

\* add_transaction with insert(0, transaction) in place of append at line 96
AddTransactionAtFront(inputs, cap) ==
    \E in \in inputs :
        /\ Len(lists[transactions]) < cap
        /\ lists' = [lists EXCEPT ![transactions] =
               <<new_transaction(in.sender, in.receiver, in.amount,
                                 in.metadata)>> \o @]
        /\ cachedBlock' = block_cache_after_read
        /\ last' = Returned("add_transaction",
                            Some(get_previous_block.index + 1))
        /\ UNCHANGED <<chain, transactions, difficulty, nodes, cachedHash,
                       now, threadVars>>

\* a call of add_transaction(sender, receiver, amount, metadata), lines 78-98
AddTransaction(inputs, cap) ==
    \E in \in inputs :
        /\ Len(lists[transactions]) < cap
        /\ lists' = [lists EXCEPT ![transactions] =
               Append(@, new_transaction(in.sender, in.receiver, in.amount,
                                         in.metadata))]
        /\ cachedBlock' = block_cache_after_read
        /\ last' = Returned("add_transaction",
                            Some(get_previous_block.index + 1))
        /\ UNCHANGED <<chain, transactions, difficulty, nodes, cachedHash,
                       now, threadVars>>

\* batch_mine_pending_transactions without the test of lines 102-103: an
\* empty pool is mined into a block like any other
BatchMineWithoutGuard(cap) ==
    /\ now <= cap
    /\ LET previous_block == get_previous_block
           proof == proof_of_work(previous_block.proof, difficulty)
           previous_hash == get_previous_hash_cached
       IN  /\ create_block(proof, previous_hash)
           /\ last' = Returned("batch_mine_pending_transactions",
                               Some(Last(chain')))
    /\ UNCHANGED <<difficulty, nodes, threadVars>>

\* a call of batch_mine_pending_transactions(), lines 100-110
BatchMine(cap) ==
    /\ now <= cap
    /\ IF lists[transactions] = <<>>
       THEN /\ last' = Returned("batch_mine_pending_transactions", None)
            /\ UNCHANGED <<chain, transactions, lists, cachedBlock,
                           cachedHash, now>>
       ELSE LET previous_block == get_previous_block
                proof == proof_of_work(previous_block.proof, difficulty)
                previous_hash == get_previous_hash_cached
            IN  /\ create_block(proof, previous_hash)
                /\ last' = Returned("batch_mine_pending_transactions",
                                    Some(Last(chain')))
    /\ UNCHANGED <<difficulty, nodes, threadVars>>

\* a direct call of create_block(proof, previous_hash), as tests.py makes it
\* (lines 39-43) and with arguments that do not fit the chain
CreateBlock(cap) ==
    /\ now <= cap
    /\ \E args \in {<<proof_of_work(Last(chain).proof, difficulty),
                       hash(BlockView(Last(chain)))>>,
                     <<2, ZeroHash>>} :
       LET proof == args[1]
           previous_hash == args[2]
       IN
            /\ create_block(proof, previous_hash)
            /\ last' = Returned("create_block", Some(Last(chain')))
    /\ UNCHANGED <<difficulty, nodes, threadVars>>

\* a call of get_previous_hash_cached(), lines 38-41
GetPreviousHashCached ==
    /\ cachedBlock' = IF IsNone(cachedHash) THEN block_cache_after_read
                      ELSE cachedBlock
    /\ cachedHash' = Some(get_previous_hash_cached)
    /\ last' = Returned("get_previous_hash_cached",
                        Some(get_previous_hash_cached))
    /\ UNCHANGED <<chain, transactions, lists, difficulty, nodes, now,
                   threadVars>>

\* the arguments of a direct call of create_block: the proof and the hash
\* that fit the top of the chain (tests.py, lines 39-43), or others
CreateBlockArgs ==
    {[proof |-> proof_of_work(Last(chain).proof, difficulty),
      previous_hash |-> hash(BlockView(Last(chain)))],
     [proof |-> 2, previous_hash |-> ZeroHash]}

\* a direct call of create_block(proof, previous_hash), lines 20-31, that
\* keeps its arguments
CreateBlockWith(cap) ==
    /\ now <= cap
    /\ \E args \in CreateBlockArgs :
            /\ create_block(args.proof, args.previous_hash)
            /\ last' = [op |-> "create_block",
                        ret |-> Some(Last(chain')),
                        raised |-> FALSE, args |-> args]
    /\ UNCHANGED <<difficulty, nodes, threadVars>>

\* the block of tests.py, lines 353-359
TestBlock ==
    [index |-> 1, timestamp |-> 0, proof |-> 123, previous_hash |-> ZeroHash,
     transactions |-> <<>>]

\* the blocks handed to hash: those of the chain and the test block
Hashable == {BlockView(chain[i]) : i \in 1..Len(chain)} \cup {TestBlock}

\* a call of hash(block), lines 56-58, for a block dict built in one of the
\* insertion orders
HashBlock ==
    /\ \E view \in Hashable, order \in InsertionOrders :
          LET dict == as_dict(view, order)
          IN  last' = [op |-> "hash", ret |-> Some(hash_dict(dict)),
                       raised |-> FALSE, arg |-> dict]
    /\ UNCHANGED <<ledgerVars, threadVars>>

\* a call of add_node(address), lines 112-114
AddNode(addresses) ==
    \E address \in addresses :
        /\ nodes' = nodes \cup {netloc_of(address)}
        /\ last' = Returned("add_node", None)
        /\ UNCHANGED <<chain, transactions, lists, difficulty, cachedBlock,
                       cachedHash, now, threadVars>>

\* add_node that assigns a new set holding the one location
AddNodeReplacing(addresses) ==
    \E address \in addresses :
        /\ nodes' = {netloc_of(address)}
        /\ last' = [op |-> "add_node", ret |-> None, raised |-> FALSE,
                    arg |-> address, met |-> nodes]
        /\ UNCHANGED <<chain, transactions, lists, difficulty, cachedBlock,
                       cachedHash, now, threadVars>>

\* a call of add_node(address), lines 112-114, keeping the address and the
\* set the call met
AddNodeWith(addresses) ==
    \E address \in addresses :
        /\ nodes' = nodes \cup {netloc_of(address)}
        /\ last' = [op |-> "add_node", ret |-> None, raised |-> FALSE,
                    arg |-> address, met |-> nodes]
        /\ UNCHANGED <<chain, transactions, lists, difficulty, cachedBlock,
                       cachedHash, now, threadVars>>

\* a constructor whose pool is a list shared by all instances: the genesis
\* block takes the pending transactions of the ledger before it
ConstructSharingPool(cap) ==
    /\ now <= cap
    /\ \E d \in Difficulties, timestamp \in Readings :
          /\ chain' = <<[index |-> 1, timestamp |-> timestamp, proof |-> 1,
                         previous_hash |-> ZeroHash, transactions |-> 1]>>
          /\ lists' = <<lists[transactions], <<>>>>
          /\ transactions' = 2
          /\ difficulty' = d
          /\ now' = now + 1
    /\ nodes' = {}
    /\ cachedBlock' = None
    /\ cachedHash' = None
    /\ last' = Returned("init", None)
    /\ UNCHANGED threadVars

\* Blockchain(difficulty=d), lines 11-18, replacing the ledger in use: the
\* empty chain and the new pool list of lines 12-13, then create_block(1,
\* '0') on them (the block takes that list at line 25, the pool a second
\* new list at line 26), then the node set and the two cache slots
Construct(cap) ==
    /\ now <= cap
    /\ \E d \in Difficulties, timestamp \in Readings :
          LET chain0 == <<>>
              pool0 == 1
              block == [index |-> Len(chain0) + 1, timestamp |-> timestamp,
                        proof |-> 1, previous_hash |-> ZeroHash,
                        transactions |-> pool0]
          IN  /\ chain' = Append(chain0, block)
              /\ lists' = <<<<>>, <<>>>>
              /\ transactions' = 2
              /\ difficulty' = d
              /\ now' = now + 1
    /\ nodes' = {}
    /\ cachedBlock' = None
    /\ cachedHash' = None
    /\ last' = Returned("init", None)
    /\ UNCHANGED threadVars

\* a call of is_chain_valid(self.chain), lines 60-76
IsChainValid ==
    /\ last' = Returned("is_chain_valid",
                        Some(is_chain_valid(ChainView(chain), difficulty)))
    /\ UNCHANGED <<ledgerVars, threadVars>>

\* candidate chains handed to is_chain_valid: peer chains that are valid,
\* tampered, misnumbered, empty, or whose last block lacks a key
Candidates(d) ==
    {PeerChain("peer1:5000", n, d) : n \in 1..3}
    \cup {TamperedChain("peer1:5000", 3, d), MisnumberedChain("peer1:5000", d),
          MalformedChain("peer1:5000", d), <<>>,
          [PeerChain("peer1:5000", 2, d) EXCEPT ![2] = WithoutPreviousHash(@)]}

\* is_chain_valid with a call of get_previous_block in it
IsChainValidWarmingCache(candidates) ==
    \E c \in candidates \cup {ChainView(chain)} :
        /\ last' = IF is_chain_valid_raises(c, difficulty)
                   THEN Raised("is_chain_valid", is_chain_valid_error(c))
                   ELSE Returned("is_chain_valid",
                                 Some(is_chain_valid(c, difficulty)))
        /\ cachedBlock' = block_cache_after_read
        /\ UNCHANGED <<chain, transactions, lists, difficulty, nodes,
                       cachedHash, now, threadVars>>

\* a call of is_chain_valid(c) for a candidate or for self.chain, lines 60-76
IsChainValidOf(candidates) ==
    \E c \in candidates \cup {ChainView(chain)} :
        /\ last' = IF is_chain_valid_raises(c, difficulty)
                   THEN Raised("is_chain_valid", is_chain_valid_error(c))
                   ELSE Returned("is_chain_valid",
                                 Some(is_chain_valid(c, difficulty)))
        /\ UNCHANGED <<ledgerVars, threadVars>>

-----------------------------------------------------------------------------
(* Consensus resolver: blockchain.py replace_chain, lines 116-131 *)

\* the body of the loop with `length > len(self.chain)` at line 125 and
\* max_length left alone: every valid chain longer than the local one is
\* taken, also after a longer one
replace_visit_not_tracking(st, r, d) ==
    IF st.raised THEN st
    ELSE IF r.raises
         THEN [st EXCEPT !.raised = TRUE, !.error = "ConnectionError"]
    ELSE IF r.status # 200 THEN st
    ELSE IF ~(r.length > st.max_length) THEN st
    ELSE IF is_chain_valid_raises(r.chain, d)
         THEN [st EXCEPT !.raised = TRUE,
                         !.error = is_chain_valid_error(r.chain)]
    ELSE IF is_chain_valid(r.chain, d)
         THEN [st EXCEPT !.longest_chain = Some(r.chain)]
         ELSE st

\* the body of the loop with `length >= max_length` at line 125
replace_visit_keeping_last(st, r, d) ==
    IF st.raised THEN st
    ELSE IF r.raises
         THEN [st EXCEPT !.raised = TRUE, !.error = "ConnectionError"]
    ELSE IF r.status # 200 THEN st
    ELSE IF ~(r.length >= st.max_length) THEN st
    ELSE IF is_chain_valid_raises(r.chain, d)
         THEN [st EXCEPT !.raised = TRUE,
                         !.error = is_chain_valid_error(r.chain)]
    ELSE IF is_chain_valid(r.chain, d)
         THEN [st EXCEPT !.max_length = r.length,
                         !.longest_chain = Some(r.chain)]
         ELSE st

\* one pass of the body of `for node in network` (lines 121-127) over the
\* loop state st = [raised, max_length, longest_chain], for the response r
replace_visit(st, r, d) ==
    IF st.raised THEN st
    ELSE IF r.raises
         THEN [st EXCEPT !.raised = TRUE, !.error = "ConnectionError"]
    ELSE IF r.status # 200 THEN st
    ELSE IF ~(r.length > st.max_length) THEN st
    ELSE IF is_chain_valid_raises(r.chain, d)
         THEN [st EXCEPT !.raised = TRUE,
                         !.error = is_chain_valid_error(r.chain)]
    ELSE IF is_chain_valid(r.chain, d)
         THEN [st EXCEPT !.max_length = r.length,
                         !.longest_chain = Some(r.chain)]
         ELSE st

\* the loop over the nodes in the order given, from position i
RECURSIVE replace_scan(_, _, _, _, _)
replace_scan(order, resp, i, st, d) ==
    IF i > Len(order) THEN st
    ELSE replace_scan(order, resp, i + 1,
                      replace_visit(st, resp[order[i]], d), d)

\* the loop state at line 119
replace_start ==
    [raised |-> FALSE, error |-> "", max_length |-> Len(chain),
     longest_chain |-> None]

\* `if longest_chain:` (line 128): None and the empty list are false
adopts(st) ==
    ~st.raised /\ ~IsNone(st.longest_chain) /\ The(st.longest_chain) # <<>>

\* The list objects still referenced once self.chain is c: unreferenced
\* lists are reclaimed and the identities renumbered in order.
LiveLists(c, others) ==
    {c[i].transactions : i \in 1..Len(c)} \cup {transactions} \cup others

Renumber(live, id) == Cardinality({r \in live : r <= id})

CompactHeap(heap, live) ==
    [k \in 1..Cardinality(live) |->
        heap[CHOOSE r \in live : Renumber(live, r) = k]]

MoveBlock(live, block) ==
    [block EXCEPT !.transactions = Renumber(live, @)]

\* the blocks of a peer's JSON are new objects, each with a new list
FreshChain(c) ==
    [i \in 1..Len(c) |-> [c[i] EXCEPT !.transactions = Len(lists) + i]]

\* the lists referenced once self.chain is the peer's chain c; others are
\* the lists the threads' local variables reference
LiveAfter(c, others) ==
    LiveLists(FreshChain(c),
              others \cup (IF IsNone(cachedBlock) THEN {}
                           ELSE {The(cachedBlock).transactions}))

\* the adoption of a chain that also empties the pool
install_chain_clearing_pool(c, others) ==
    LET live == LiveAfter(c, others)
        heap == lists \o [i \in 1..Len(c) |-> c[i].transactions]
    IN  /\ chain' = [i \in 1..Len(c) |-> MoveBlock(live, FreshChain(c)[i])]
        /\ lists' = [CompactHeap(heap, live) EXCEPT
                        ![Renumber(live, transactions)] = <<>>]
        /\ transactions' = Renumber(live, transactions)
        /\ cachedBlock' = IF IsNone(cachedBlock) THEN None
                          ELSE Some(MoveBlock(live, The(cachedBlock)))

\* self.chain = longest_chain (line 129)
install_chain(c, others) ==
    LET live == LiveAfter(c, others)
        heap == lists \o [i \in 1..Len(c) |-> c[i].transactions]
    IN  /\ chain' = [i \in 1..Len(c) |-> MoveBlock(live, FreshChain(c)[i])]
        /\ lists' = CompactHeap(heap, live)
        /\ transactions' = Renumber(live, transactions)
        /\ cachedBlock' = IF IsNone(cachedBlock) THEN None
                          ELSE Some(MoveBlock(live, The(cachedBlock)))

\* the answers the nodes of a set may give, one per node
AnswersOf(network, table) ==
    {resp \in [network -> UNION {table[difficulty][n] : n \in network}] :
        \A n \in network : resp[n] \in table[difficulty][n]}

\* the answers the registered nodes may give, one per node
Answers(table) == AnswersOf(nodes, table)

\* `network = self.nodes` (line 117) is a second name of the one set: when
\* add_node has added a location since the loop of line 120 began, the
\* set iterator raises RuntimeError at its next step
SetChanged(network) == network # {} /\ nodes # network

\* the loop state of thread t once the answer r of a node is there: lines
\* 121-127 for that answer, then the next step of the iterator of line 120
replace_after(t, r) ==
    LET st == replace_visit(The(loc[t].st), r, difficulty)
    IN  IF ~st.raised /\ SetChanged(loc[t].net)
        THEN [st EXCEPT !.raised = TRUE, !.error = "RuntimeError"]
        ELSE st

\* the loop goes on to the next node and waits for its answer (line 121)
replace_waits(t, n, st) ==
    /\ loc' = [loc EXCEPT ![t].st = Some(st), ![t].todo = @ \ {n}]
    /\ UNCHANGED <<pc, last, chain, lists, transactions, cachedBlock>>

\* the return of thread t from replace_chain
replace_return(t) ==
    /\ pc' = [pc EXCEPT ![t] = "idle"]
    /\ loc' = [loc EXCEPT ![t] = NoLocals]

\* lines 117-120 of a call of replace_chain(): network, max_length and the
\* first step of the loop; the call then waits for the answer of a peer
\* (requests.get, line 121) while other calls run. With no node registered
\* the loop ends at once and the call returns False (line 131).
ReplaceChainEnter ==
    \E t \in Resolvers :
        /\ pc[t] = "idle"
        /\ IF nodes = {}
           THEN /\ last' = Returned("replace_chain", Some(FALSE))
                /\ UNCHANGED <<pc, loc>>
           ELSE /\ pc' = [pc EXCEPT ![t] = "rc_visit"]
                /\ loc' = [loc EXCEPT ![t].st = Some(replace_start),
                                      ![t].net = nodes, ![t].todo = nodes,
                                      ![t].len = Len(chain)]
                /\ UNCHANGED last
        /\ UNCHANGED <<ledgerVars, lock, accepted>>

\* replace_chain with self.chain assigned inside the loop, as soon as a
\* candidate passes, so that a later exception leaves the new chain behind
ReplaceChainAssigningInLoop(table) ==
    \E t \in Resolvers :
        /\ pc[t] = "rc_visit"
        /\ \E n \in loc[t].todo : \E r \in table[difficulty][n] :
              LET st == replace_after(t, r)
                  taken == st.longest_chain # The(loc[t].st).longest_chain
              IN  /\ IF taken
                     THEN install_chain(The(st.longest_chain), {})
                     ELSE UNCHANGED <<chain, lists, transactions, cachedBlock>>
                  /\ IF st.raised
                     THEN /\ last' = Raised("replace_chain", st.error)
                          /\ replace_return(t)
                     ELSE IF loc[t].todo # {n}
                     THEN /\ loc' = [loc EXCEPT ![t].st = Some(st),
                                                ![t].todo = @ \ {n}]
                          /\ UNCHANGED <<pc, last>>
                     ELSE /\ last' = Returned("replace_chain",
                                         Some(~IsNone(st.longest_chain)))
                          /\ replace_return(t)
        /\ UNCHANGED <<difficulty, nodes, cachedHash, now, lock, accepted>>

\* replace_chain taking any answer with a larger reported length, without
\* is_chain_valid and without the test of line 128
ReplaceChainUnchecked(table) ==
    \E t \in Resolvers :
        /\ pc[t] = "rc_visit"
        /\ \E n \in loc[t].todo : \E r \in table[difficulty][n] :
              /\ ~r.raises /\ r.status = 200
              /\ r.length > The(loc[t].st).max_length
              /\ install_chain(r.chain, {})
              /\ last' = Returned("replace_chain", Some(TRUE))
        /\ replace_return(t)
        /\ UNCHANGED <<difficulty, nodes, cachedHash, now, lock, accepted>>

\* replace_chain with `return True` outside the test of line 128
ReplaceChainAlwaysTrue(table) ==
    \E t \in Resolvers :
        /\ pc[t] = "rc_visit"
        /\ \E n \in loc[t].todo : \E r \in table[difficulty][n] :
              LET st == replace_after(t, r)
              IN  IF st.raised
                  THEN /\ last' = Raised("replace_chain", st.error)
                       /\ replace_return(t)
                       /\ UNCHANGED <<chain, lists, transactions, cachedBlock>>
                  ELSE IF loc[t].todo # {n}
                  THEN replace_waits(t, n, st)
                  ELSE IF adopts(st)
                  THEN /\ install_chain(The(st.longest_chain), {})
                       /\ last' = Returned("replace_chain", Some(TRUE))
                       /\ replace_return(t)
                  ELSE /\ last' = Returned("replace_chain", Some(TRUE))
                       /\ replace_return(t)
                       /\ UNCHANGED <<chain, lists, transactions, cachedBlock>>
        /\ UNCHANGED <<difficulty, nodes, cachedHash, now, lock, accepted>>

\* a call of replace_chain() that waits at line 121, when the answer of the
\* node arrives: lines 121-127 for that answer and the next step of the
\* loop (line 120). An exception ends the call; with a node left the call
\* waits for its answer; after the last node the loop ends, self.chain is
\* assigned when a candidate was taken (lines 128-130) and the call returns.
ReplaceChain(table) ==
    \E t \in Resolvers :
        /\ pc[t] = "rc_visit"
        /\ \E n \in loc[t].todo : \E r \in table[difficulty][n] :
              LET st == replace_after(t, r)
              IN  IF st.raised
                  THEN /\ last' = Raised("replace_chain", st.error)
                       /\ replace_return(t)
                       /\ UNCHANGED <<chain, lists, transactions, cachedBlock>>
                  ELSE IF loc[t].todo # {n}
                  THEN replace_waits(t, n, st)
                  ELSE IF adopts(st)
                  THEN /\ install_chain(The(st.longest_chain), {})
                       /\ last' = Returned("replace_chain", Some(TRUE))
                       /\ replace_return(t)
                  ELSE /\ last' = Returned("replace_chain", Some(FALSE))
                       /\ replace_return(t)
                       /\ UNCHANGED <<chain, lists, transactions, cachedBlock>>
        /\ UNCHANGED <<difficulty, nodes, cachedHash, now, lock, accepted>>

\* what a call has met when the answer r of node n ends it: the nodes in
\* the order of their visits, the answer of each, and the length read at
\* line 119
replace_met(t, n, r) ==
    [order |-> Append(loc[t].seen, n),
     resp |-> [m \in {n} \cup DOMAIN loc[t].got |->
                  IF m = n THEN r ELSE loc[t].got[m]],
     local_length |-> loc[t].len]

\* the step of ReplaceChain, keeping what the call met
ReplaceChainWith(table) ==
    \E t \in Resolvers :
        /\ pc[t] = "rc_visit"
        /\ \E n \in loc[t].todo : \E r \in table[difficulty][n] :
              LET st == replace_after(t, r)
                  met == replace_met(t, n, r)
              IN  IF st.raised
                  THEN /\ last' = [op |-> "replace_chain", ret |-> None,
                                   raised |-> TRUE, error |-> st.error,
                                   met |-> met]
                       /\ replace_return(t)
                       /\ UNCHANGED <<chain, lists, transactions, cachedBlock>>
                  ELSE IF loc[t].todo # {n}
                  THEN /\ loc' = [loc EXCEPT
                                    ![t].st = Some(st), ![t].todo = @ \ {n},
                                    ![t].seen = Append(@, n),
                                    ![t].got = [m \in {n} \cup DOMAIN @ |->
                                                  IF m = n THEN r ELSE @[m]]]
                       /\ UNCHANGED <<pc, last, chain, lists, transactions,
                                      cachedBlock>>
                  ELSE IF adopts(st)
                  THEN /\ install_chain(The(st.longest_chain), {})
                       /\ last' = [op |-> "replace_chain", ret |-> Some(TRUE),
                                   raised |-> FALSE, error |-> "", met |-> met]
                       /\ replace_return(t)
                  ELSE /\ last' = [op |-> "replace_chain", ret |-> Some(FALSE),
                                   raised |-> FALSE, error |-> "", met |-> met]
                       /\ replace_return(t)
                       /\ UNCHANGED <<chain, lists, transactions, cachedBlock>>
        /\ UNCHANGED <<difficulty, nodes, cachedHash, now, lock, accepted>>

-----------------------------------------------------------------------------
(* Specifications of the ledger used by one caller *)

\* add_transaction and batch_mine_pending_transactions only
NextBuild == AddTransaction(TxInputs, MaxPool) \/ BatchMine(MaxMined)

SpecBuild == Init /\ [][NextBuild]_vars

\* the calls that keep the chain linked, with peers and consensus
NextLedger ==
    \/ AddTransaction(OneInput, PeerPool)
    \/ BatchMine(PeerMined)
    \/ GetPreviousBlock
    \/ AddNode(Addresses)
    \/ ReplaceChainEnter
    \/ ReplaceChain(ResponseTable)

SpecLedger == Init /\ [][NextLedger]_vars

\* every method of the class
Next ==
    \/ AddTransaction(OneInput, PeerPool)
    \/ BatchMine(PeerMined)
    \/ GetPreviousBlock
    \/ CreateBlock(PeerMined)
    \/ AddNode(Addresses)
    \/ ReplaceChainEnter
    \/ ReplaceChain(ResponseTable)
    \/ IsChainValid

Spec == Init /\ [][Next]_vars

\* arguments of add_transaction that may be None: each of sender, receiver
\* and amount is None or Some(value), and the transaction dict keeps the
\* amount in that form
AnyInputs ==
    [sender : {None, Some(ShortSender)},
     receiver : {None, Some(ShortReceiver)},
     amount : {None, Some(50)},
     metadata : {None}]

\* a call of add_transaction with such arguments, lines 78-98: len(None)
\* raises TypeError at line 81 or 82, before the pool is touched
AddTransactionAny(inputs, cap) ==
    \E in \in inputs :
        /\ Len(lists[transactions]) < cap
        /\ IF IsNone(in.sender) \/ IsNone(in.receiver)
           THEN /\ last' = [op |-> "add_transaction", ret |-> None,
                            raised |-> TRUE, error |-> "TypeError",
                            args |-> in]
                /\ UNCHANGED <<lists, cachedBlock>>
           ELSE /\ lists' = [lists EXCEPT ![transactions] =
                       Append(@, new_transaction(The(in.sender),
                                     The(in.receiver), in.amount,
                                     in.metadata))]
                /\ cachedBlock' = block_cache_after_read
                /\ last' = [op |-> "add_transaction",
                            ret |-> Some(get_previous_block.index + 1),
                            raised |-> FALSE, error |-> "", args |-> in]
        /\ UNCHANGED <<chain, transactions, difficulty, nodes, cachedHash,
                       now, threadVars>>

\* a ledger fed with arguments that may be None
NextInput ==
    \/ AddTransactionAny(AnyInputs, MaxPool)
    \/ BatchMine(MaxMined)
    \/ IsChainValid

SpecInput == Init /\ [][NextInput]_vars

\* a ledger of any difficulty in 0..MaxDifficulty
InitProof ==
    /\ chain = <<[index |-> 1, timestamp |-> 0, proof |-> 1,
                  previous_hash |-> ZeroHash, transactions |-> 1]>>
    /\ lists = <<<<>>, <<>>>>
    /\ transactions = 2
    /\ difficulty \in 0..MaxDifficulty
    /\ nodes = {}
    /\ cachedBlock = None
    /\ cachedHash = None
    /\ now = 1
    /\ last = Returned("init", None)
    /\ lock = None
    /\ pc = [t \in {} |-> "idle"]
    /\ loc = [t \in {} |-> None]
    /\ accepted = {}

\* a call of proof_of_work(previous_proof), lines 43-54
ProofOfWork ==
    \E previous_proof \in -MaxPrevious..MaxPrevious :
        /\ Scannable(previous_proof, difficulty)
        /\ last' = [op |-> "proof_of_work",
                    ret |-> Some(proof_of_work(previous_proof, difficulty)),
                    raised |-> FALSE, arg |-> previous_proof]
        /\ UNCHANGED <<ledgerVars, threadVars>>

SpecProof == InitProof /\ [][ProofOfWork]_vars

\* a ledger built by its own calls, validating its chain and candidates
NextValidate ==
    \/ AddTransaction(OneInput, MaxPool)
    \/ BatchMine(MaxMined)
    \/ GetPreviousBlock
    \/ IsChainValidOf(Candidates(difficulty))

SpecValidate == Init /\ [][NextValidate]_vars

\* every method that changes the chain, with one peer that may also answer
\* with a misnumbered chain or a block that lacks a key
NextPeers ==
    \/ AddTransaction(OneInput, PeerPool)
    \/ BatchMine(PeerMined)
    \/ CreateBlock(MaxMined)
    \/ AddNode(OneAddress)
    \/ ReplaceChainEnter
    \/ ReplaceChain(FullResponseTable)

SpecPeers == Init /\ [][NextPeers]_vars

\* a ledger in use that is replaced by a newly constructed one
NextFresh ==
    \/ AddTransaction(OneInput, MaxPool)
    \/ BatchMine(MaxMined)
    \/ GetPreviousBlock
    \/ AddNode(OneAddress)
    \/ Construct(MaxMined)

SpecFresh == Init /\ [][NextFresh]_vars

\* direct calls of create_block on a ledger with pending transactions and
\* filled cache slots
NextCreate ==
    \/ AddTransaction(TxInputs, MaxPool)
    \/ GetPreviousBlock
    \/ GetPreviousHashCached
    \/ BatchMine(MaxMined)
    \/ CreateBlockWith(MaxMined)

SpecCreate == Init /\ [][NextCreate]_vars

\* a ledger that mines and resolves against two peers
NextResolve ==
    \/ AddTransaction(OneInput, PeerPool)
    \/ BatchMine(PeerMined)
    \/ AddNode(Addresses)
    \/ ReplaceChainEnter
    \/ ReplaceChain(ResponseTable)

SpecResolve == Init /\ [][NextResolve]_vars

\* a ledger in use whose registry of peers is filled
NextRegistry ==
    \/ AddTransaction(OneInput, PeerPool)
    \/ BatchMine(PeerMined)
    \/ GetPreviousBlock
    \/ GetPreviousHashCached
    \/ AddNodeWith(RegistryAddresses)

SpecRegistry == Init /\ [][NextRegistry]_vars

\* a ledger that resolves against two competing peers, keeping what each
\* pass met
NextTies ==
    \/ AddNode(Addresses)
    \/ ReplaceChainEnter
    \/ ReplaceChainWith(CompetingTable)

SpecTies == Init /\ [][NextTies]_vars

\* a ledger fed with senders and receivers around the limit of eight
\* characters and with every kind of metadata
NextSubmit ==
    \/ AddTransactionAny(SubmitInputs, MaxPool)
    \/ GetPreviousBlock
    \/ IsChainValid

SpecSubmit == Init /\ [][NextSubmit]_vars

\* a ledger whose blocks are hashed as dicts built in several insertion
\* orders
NextHash ==
    \/ AddTransaction(TxInputs, PeerPool)
    \/ BatchMine(PeerMined)
    \/ GetPreviousHashCached
    \/ HashBlock

SpecHash == Init /\ [][NextHash]_vars

-----------------------------------------------------------------------------
(* Threads: request threads calling add_transaction and reading the top    *)
(* block without the lock, and miner threads running views.async_mine_block *)
(* under mining_lock.  One step is one read or write of a shared field.     *)

Submitters == {"s1"}
Readers == {"r1"}
Miners == {"m1", "m2"}
\* add_transaction calls started by the request threads are capped
MaxSubmit == 2

PeerSubmit == MaxSubmit - 1

InitThreads(threads) ==
    /\ chain = <<[index |-> 1, timestamp |-> 0, proof |-> 1,
                  previous_hash |-> ZeroHash, transactions |-> 1]>>
    /\ lists = <<<<>>, <<>>>>
    /\ transactions = 2
    /\ difficulty \in Difficulties
    /\ nodes = {}
    /\ cachedBlock = None
    /\ cachedHash = None
    /\ now = 1
    /\ last = Returned("init", None)
    /\ lock = None
    /\ pc = [t \in threads |-> "idle"]
    /\ loc = [t \in threads |-> NoLocals]
    /\ accepted = {}

Goto(t, label) == pc' = [pc EXCEPT ![t] = label]
Set(t, field, value) == loc' = [loc EXCEPT ![t][field] = value]
\* enter get_previous_block, to continue at label back
CallGetPreviousBlock(t, back) ==
    /\ pc' = [pc EXCEPT ![t] = "gp_test"]
    /\ loc' = [loc EXCEPT ![t].back = back]
Finish(t) ==
    /\ pc' = [pc EXCEPT ![t] = "idle"]
    /\ loc' = [loc EXCEPT ![t] = NoLocals]

\* json.dumps(None) is 'null': hash(None) is the digest of that text
NullHash == <<110, 117, 108, 108>>

(* get_previous_block, lines 33-36, by any thread *)

\* line 34: if self._cached_previous_block is None
gp_test(t) ==
    /\ pc[t] = "gp_test"
    /\ Goto(t, IF IsNone(cachedBlock) THEN "gp_read" ELSE "gp_ret")
    /\ UNCHANGED <<ledgerVars, last, lock, loc, accepted>>

\* line 35, right-hand side: self.chain[-1]
gp_read(t) ==
    /\ pc[t] = "gp_read"
    /\ Set(t, "tmp", Some(Last(chain)))
    /\ Goto(t, "gp_write")
    /\ UNCHANGED <<ledgerVars, last, lock, accepted>>

\* line 35, the assignment to self._cached_previous_block
gp_write(t) ==
    /\ pc[t] = "gp_write"
    /\ cachedBlock' = loc[t].tmp
    /\ Goto(t, "gp_ret")
    /\ UNCHANGED <<chain, transactions, lists, difficulty, nodes, cachedHash,
                   now, last, lock, loc, accepted>>

\* line 36: return self._cached_previous_block
gp_ret(t) ==
    /\ pc[t] = "gp_ret"
    /\ Set(t, "res", cachedBlock)
    /\ Goto(t, loc[t].back)
    /\ UNCHANGED <<ledgerVars, last, lock, accepted>>

(* add_transaction, lines 78-98, by a request thread *)

InFlight == Cardinality({t \in DOMAIN pc : pc[t] = "at_append"})

\* lines 80-85 and the read of self.transactions at line 96
at_load(t, cap) ==
    /\ pc[t] = "idle"
    /\ Cardinality(accepted) + InFlight < cap
    /\ loc' = [loc EXCEPT
                 ![t].tx = Some(new_transaction(ShortSender, ShortReceiver,
                                    Cardinality(accepted) + InFlight + 1, None)),
                 ![t].txl = transactions]
    /\ Goto(t, "at_append")
    /\ UNCHANGED <<ledgerVars, last, lock, accepted>>

\* line 96: the append to the list that was read
at_append(t) ==
    /\ pc[t] = "at_append"
    /\ lists' = [lists EXCEPT ![loc[t].txl] = Append(@, The(loc[t].tx))]
    /\ accepted' = accepted \cup {The(loc[t].tx)}
    /\ CallGetPreviousBlock(t, "at_ret")
    /\ UNCHANGED <<chain, transactions, difficulty, nodes, cachedBlock,
                   cachedHash, now, last, lock>>

\* line 98: previous_block['index'] + 1 (TypeError when it is None)
at_ret(t) ==
    /\ pc[t] = "at_ret"
    /\ Finish(t)
    /\ UNCHANGED <<ledgerVars, last, lock, accepted>>

(* async_blockchain_stats, views.py lines 267-277, by a request thread *)

\* line 273: blockchain.get_previous_block() if blockchain.chain
stats_start(t) ==
    /\ pc[t] = "idle"
    /\ chain # <<>>
    /\ CallGetPreviousBlock(t, "stats_hash")
    /\ UNCHANGED <<ledgerVars, last, lock, accepted>>

\* line 273: blockchain.hash(...)
stats_hash(t) ==
    /\ pc[t] = "stats_hash"
    /\ Finish(t)
    /\ UNCHANGED <<ledgerVars, last, lock, accepted>>

(* async_mine_block, views.py lines 73-115, by a miner thread *)

\* line 75: with mining_lock
m_lock(t, cap) ==
    /\ pc[t] = "idle"
    /\ now <= cap
    /\ IsNone(lock)
    /\ lock' = Some(t)
    /\ Goto(t, "m_check")
    /\ UNCHANGED <<ledgerVars, last, loc, accepted>>

\* async_mine_block that returns with the lock held when nothing is pending
m_check_keeping_lock(t) ==
    /\ pc[t] = "m_check"
    /\ IF lists[transactions] # <<>>
       THEN /\ \E recorded \in BOOLEAN :
                  Goto(t, IF recorded THEN "bm_check" ELSE "m_unlock")
            /\ UNCHANGED loc
       ELSE Finish(t)
    /\ UNCHANGED <<ledgerVars, last, lock, accepted>>

\* line 76: if blockchain.transactions; lines 77-86: the metrics of the
\* start of a run. record_pending_transactions and record_operation (lines
\* 85-86) stand before the try of line 88 and reach add_sample, whose
\* client.hset (redis_timeseries.py line 116) is in no try: when it raises,
\* the exception leaves the with block and nothing is mined
m_check(t) ==
    /\ pc[t] = "m_check"
    /\ IF lists[transactions] # <<>>
       THEN \E recorded \in BOOLEAN :
               Goto(t, IF recorded THEN "bm_check" ELSE "m_unlock")
       ELSE Goto(t, "m_unlock")
    /\ UNCHANGED <<ledgerVars, last, lock, loc, accepted>>

\* blockchain.py line 102: if not self.transactions: return None;
\* line 105: previous_block = self.get_previous_block()
bm_check(t) ==
    /\ pc[t] = "bm_check"
    /\ IF lists[transactions] = <<>>
       THEN Goto(t, "m_unlock") /\ UNCHANGED loc
       ELSE CallGetPreviousBlock(t, "bm_pow")
    /\ UNCHANGED <<ledgerVars, last, lock, accepted>>

\* lines 106-107: previous_block['proof'], then the search; a TypeError on
\* None is caught at views.py line 111
bm_pow(t) ==
    /\ pc[t] = "bm_pow"
    /\ IF IsNone(loc[t].res)
       THEN Goto(t, "m_unlock") /\ UNCHANGED loc
       ELSE /\ Set(t, "proof",
                   proof_of_work(The(loc[t].res).proof, difficulty))
            /\ Goto(t, "gh_test")
    /\ UNCHANGED <<ledgerVars, last, lock, accepted>>

\* line 39: if self._cached_previous_hash is None
gh_test(t) ==
    /\ pc[t] = "gh_test"
    /\ IF IsNone(cachedHash)
       THEN CallGetPreviousBlock(t, "gh_write")
       ELSE Goto(t, "gh_ret") /\ UNCHANGED loc
    /\ UNCHANGED <<ledgerVars, last, lock, accepted>>

\* line 40: self._cached_previous_hash = self.hash(...)
gh_write(t) ==
    /\ pc[t] = "gh_write"
    /\ cachedHash' = Some(IF IsNone(loc[t].res) THEN NullHash
                          ELSE hash(BlockView(The(loc[t].res))))
    /\ Goto(t, "gh_ret")
    /\ UNCHANGED <<chain, transactions, lists, difficulty, nodes, cachedBlock,
                   now, last, lock, loc, accepted>>

\* line 41: return self._cached_previous_hash
gh_ret(t) ==
    /\ pc[t] = "gh_ret"
    /\ Set(t, "hsh", cachedHash)
    /\ Goto(t, "cb_index")
    /\ UNCHANGED <<ledgerVars, last, lock, accepted>>

\* create_block line 21: len(self.chain) + 1
cb_index(t) ==
    /\ pc[t] = "cb_index"
    /\ Set(t, "idx", Len(chain) + 1)
    /\ Goto(t, "cb_txs")
    /\ UNCHANGED <<ledgerVars, last, lock, accepted>>

\* lines 22-25: the timestamp and the read of self.transactions
cb_txs(t) ==
    /\ pc[t] = "cb_txs"
    /\ \E timestamp \in Readings :
          /\ Set(t, "blk",
                 Some([index |-> loc[t].idx, timestamp |-> timestamp,
                       proof |-> loc[t].proof,
                       previous_hash |-> IF IsNone(loc[t].hsh) THEN None
                                         ELSE The(loc[t].hsh),
                       transactions |-> transactions]))
          /\ now' = now + 1
    /\ Goto(t, "cb_clear")
    /\ UNCHANGED <<chain, transactions, lists, difficulty, nodes, cachedBlock,
                   cachedHash, last, lock, accepted>>

\* line 26 as self.transactions.clear(): the list object is emptied in place
cb_clear_in_place(t) ==
    /\ pc[t] = "cb_clear"
    /\ lists' = [lists EXCEPT ![transactions] = <<>>]
    /\ Goto(t, "cb_append")
    /\ UNCHANGED <<chain, transactions, difficulty, nodes, cachedBlock,
                   cachedHash, now, last, lock, loc, accepted>>

\* line 26: self.transactions = []
cb_clear(t) ==
    /\ pc[t] = "cb_clear"
    /\ lists' = Append(lists, <<>>)
    /\ transactions' = Len(lists) + 1
    /\ Goto(t, "cb_append")
    /\ UNCHANGED <<chain, difficulty, nodes, cachedBlock, cachedHash, now,
                   last, lock, loc, accepted>>

\* line 27: self.chain.append(block)
cb_append(t) ==
    /\ pc[t] = "cb_append"
    /\ chain' = Append(chain, The(loc[t].blk))
    /\ Goto(t, "cb_cache1")
    /\ UNCHANGED <<transactions, lists, difficulty, nodes, cachedBlock,
                   cachedHash, now, last, lock, loc, accepted>>

\* line 29: self._cached_previous_block = None
cb_cache1(t) ==
    /\ pc[t] = "cb_cache1"
    /\ cachedBlock' = None
    /\ Goto(t, "cb_cache2")
    /\ UNCHANGED <<chain, transactions, lists, difficulty, nodes, cachedHash,
                   now, last, lock, loc, accepted>>

\* create_block without line 30
cb_cache2_keeping_hash(t) ==
    /\ pc[t] = "cb_cache2"
    /\ Goto(t, "m_unlock")
    /\ UNCHANGED <<ledgerVars, last, lock, loc, accepted>>

\* line 30: self._cached_previous_hash = None
cb_cache2(t) ==
    /\ pc[t] = "cb_cache2"
    /\ cachedHash' = None
    /\ Goto(t, "m_unlock")
    /\ UNCHANGED <<chain, transactions, lists, difficulty, nodes, cachedBlock,
                   now, last, lock, loc, accepted>>

\* views.py: the end of the with block releases mining_lock
m_unlock(t) ==
    /\ pc[t] = "m_unlock"
    /\ lock' = None
    /\ Finish(t)
    /\ UNCHANGED <<ledgerVars, last, accepted>>

get_previous_block_step(t) ==
    gp_test(t) \/ gp_read(t) \/ gp_write(t) \/ gp_ret(t)

add_transaction_step(t, cap) == at_load(t, cap) \/ at_append(t) \/ at_ret(t)

stats_step(t) == stats_start(t) \/ stats_hash(t)

\* the body of the with block of async_mine_block and the release
mine_run_step(t) ==
    \/ m_check(t) \/ bm_check(t) \/ bm_pow(t)
    \/ gh_test(t) \/ gh_write(t) \/ gh_ret(t)
    \/ cb_index(t) \/ cb_txs(t) \/ cb_clear(t) \/ cb_append(t)
    \/ cb_cache1(t) \/ cb_cache2(t) \/ m_unlock(t)

async_mine_block_step(t, cap) == m_lock(t, cap) \/ mine_run_step(t)

\* request threads and miners, no chain replacement
MiningThreads == Submitters \cup Readers \cup Miners

InitMining == InitThreads(MiningThreads)

NextMining ==
    \/ \E t \in MiningThreads : get_previous_block_step(t)
    \/ \E t \in Submitters : add_transaction_step(t, MaxSubmit)
    \/ \E t \in Readers : stats_step(t)
    \/ \E t \in Miners : async_mine_block_step(t, MaxMined)

SpecMining == InitMining /\ [][NextMining]_vars

(* stress_mine, views.py lines 313-329, by a worker thread, the miner       *)
(* thread it starts, and a POST request to watermark                        *)

StressWorkers == {"k1", "k2"}
Spawned == {"n1", "n2"}
Watermarkers == {"w1"}

\* the thread a worker starts at line 328
SpawnedBy == [t \in StressWorkers |-> IF t = "k1" THEN "n1" ELSE "n2"]

\* what uuid4().hex[:8] may draw: eight times 'a', eight times 'b'; two
\* draws may be equal
HexDraws == {[i \in 1..8 |-> 97], [i \in 1..8 |-> 98]}

\* 'stress_test_' and 'target_' (views.py lines 318-319)
StressPrefix == <<115, 116, 114, 101, 115, 115, 95, 116, 101, 115, 116, 95>>
TargetPrefix == <<116, 97, 114, 103, 101, 116, 95>>

\* views.py lines 317-321 into blockchain.py lines 80-95, and the read of
\* self.transactions at line 96
sm_load(t) ==
    /\ pc[t] = "idle"
    /\ \E sender_hex, receiver_hex \in HexDraws :
          loc' = [loc EXCEPT
                    ![t].tx = Some(new_transaction(
                                       StressPrefix \o sender_hex,
                                       TargetPrefix \o receiver_hex, 1, None)),
                    ![t].txl = transactions]
    /\ Goto(t, "sm_append")
    /\ UNCHANGED <<ledgerVars, last, lock, accepted>>

\* blockchain.py line 96: the append to the list that was read
sm_append(t) ==
    /\ pc[t] = "sm_append"
    /\ lists' = [lists EXCEPT ![loc[t].txl] = Append(@, The(loc[t].tx))]
    /\ accepted' = accepted \cup {The(loc[t].tx)}
    /\ CallGetPreviousBlock(t, "sm_index")
    /\ UNCHANGED <<chain, transactions, difficulty, nodes, cachedBlock,
                   cachedHash, now, last, lock>>

\* blockchain.py line 98: previous_block['index'] + 1; the TypeError on None
\* ends the worker thread
sm_index(t) ==
    /\ pc[t] = "sm_index"
    /\ Goto(t, IF IsNone(loc[t].res) THEN "sm_raised" ELSE "sm_spawn")
    /\ UNCHANGED <<ledgerVars, last, lock, loc, accepted>>

\* views.py line 328: start a thread running async_mine_block
sm_spawn(t) ==
    /\ pc[t] = "sm_spawn"
    /\ pc' = [pc EXCEPT ![t] = "sm_done", ![SpawnedBy[t]] = "m_wait"]
    /\ UNCHANGED <<ledgerVars, last, lock, loc, accepted>>

\* views.py lines 123-127 of watermark on a POST request: image_file is
\* bound nowhere, `if not image_file` raises NameError and the request
\* ends before it reaches add_transaction (line 184)
wm_post(t) ==
    /\ pc[t] = "idle"
    /\ Goto(t, "wm_raised")
    /\ UNCHANGED <<ledgerVars, last, lock, loc, accepted>>

\* views.py line 75 in a started thread: with mining_lock
m_acquire(t) ==
    /\ pc[t] = "m_wait"
    /\ IsNone(lock)
    /\ lock' = Some(t)
    /\ Goto(t, "m_check")
    /\ UNCHANGED <<ledgerVars, last, loc, accepted>>

stress_mine_step(t) ==
    \/ sm_load(t) \/ sm_append(t) \/ sm_index(t) \/ sm_spawn(t)
    \/ get_previous_block_step(t)

spawned_step(t) ==
    m_acquire(t) \/ mine_run_step(t) \/ get_previous_block_step(t)

TriggerThreads == StressWorkers \cup Spawned \cup Watermarkers

InitTrigger ==
    /\ chain = <<[index |-> 1, timestamp |-> 0, proof |-> 1,
                  previous_hash |-> ZeroHash, transactions |-> 1]>>
    /\ lists = <<<<>>, <<>>>>
    /\ transactions = 2
    /\ difficulty \in Difficulties
    /\ nodes = {}
    /\ cachedBlock = None
    /\ cachedHash = None
    /\ now = 1
    /\ last = Returned("init", None)
    /\ lock = None
    /\ pc = [t \in TriggerThreads |-> IF t \in Spawned THEN "new" ELSE "idle"]
    /\ loc = [t \in TriggerThreads |-> NoLocals]
    /\ accepted = {}

\* two workers of stress_test_mining, each with the miner thread it
\* starts, and one POST request to watermark
NextTrigger ==
    \/ \E t \in StressWorkers : stress_mine_step(t)
    \/ \E t \in Spawned : spawned_step(t)
    \/ \E t \in Watermarkers : wm_post(t)

\* some thread that can run does run; no thread loops, so every thread that
\* can run eventually does
SpecTrigger == InitTrigger /\ [][NextTrigger]_vars /\ WF_vars(NextTrigger)

(* replace_chain, blockchain.py lines 116-131, by a request thread: the   *)
(* method takes no lock                                                    *)

\* the lists a thread's local variables reference
LocalRefs(l) ==
    (IF l.txl = 0 THEN {} ELSE {l.txl})
    \cup {The(b).transactions : b \in {l.tmp, l.res, l.blk} \ {None}}

MoveOption(live, b) == IF IsNone(b) THEN None ELSE Some(MoveBlock(live, The(b)))

MoveLocals(live, l) ==
    [l EXCEPT !.txl = IF @ = 0 THEN 0 ELSE Renumber(live, @),
              !.tmp = MoveOption(live, @),
              !.res = MoveOption(live, @),
              !.blk = MoveOption(live, @)]

\* replace_chain entered under mining_lock
rc_start_locking(t) ==
    /\ pc[t] = "idle"
    /\ IsNone(lock)
    /\ lock' = Some(t)
    /\ loc' = [loc EXCEPT ![t].st = Some(replace_start)]
    /\ Goto(t, "rc_iter")
    /\ UNCHANGED <<ledgerVars, last, accepted>>

\* lines 117-119: network = self.nodes names the set itself, longest_chain
\* = None, and max_length = len(self.chain) reads the chain
rc_start(t) ==
    /\ pc[t] = "idle"
    /\ loc' = [loc EXCEPT ![t].st = Some(replace_start)]
    /\ Goto(t, "rc_iter")
    /\ UNCHANGED <<ledgerVars, last, lock, accepted>>

\* line 120: `for node in network` makes the iterator over the set as it
\* is now, with the nodes registered since line 119; over an empty set the
\* loop ends at once
rc_iter(t) ==
    /\ pc[t] = "rc_iter"
    /\ loc' = [loc EXCEPT ![t].net = nodes, ![t].todo = nodes]
    /\ Goto(t, IF nodes = {} THEN "rc_end" ELSE "rc_visit")
    /\ UNCHANGED <<ledgerVars, last, lock, accepted>>

\* lines 120-127: the answer of one node of the loop, then the next step
\* of the set iterator; an exception ends the call, and so does the
\* RuntimeError of the iterator when add_node has changed the size of the
\* set since the loop began
rc_visit_of(t, table) ==
    /\ pc[t] = "rc_visit"
    /\ \E n \in loc[t].todo : \E r \in table[difficulty][n] :
          LET st == replace_after(t, r)
          IN  IF st.raised
              THEN Finish(t)
              ELSE /\ loc' = [loc EXCEPT ![t].st = Some(st),
                                         ![t].todo = @ \ {n}]
                   /\ Goto(t, IF loc[t].todo = {n} THEN "rc_end"
                              ELSE "rc_visit")
    /\ UNCHANGED <<ledgerVars, last, lock, accepted>>

\* line 121 with a peer that accepts the connection and never answers:
\* requests.get is given no timeout, so the call does not return
rc_hang(t) ==
    /\ pc[t] = "rc_visit"
    /\ loc[t].todo # {}
    /\ Goto(t, "rc_wait")
    /\ UNCHANGED <<ledgerVars, last, lock, loc, accepted>>

\* lines 128-131, after the loop has ended
rc_end(t) ==
    /\ pc[t] = "rc_end"
    /\ LET st == The(loc[t].st)
           c == The(st.longest_chain)
           others == UNION {LocalRefs(loc[u]) : u \in DOMAIN loc}
       IN  IF adopts(st)
           THEN /\ install_chain(c, others)
                /\ loc' = [u \in DOMAIN loc |->
                             IF u = t THEN NoLocals
                             ELSE MoveLocals(LiveAfter(c, others), loc[u])]
                /\ pc' = [pc EXCEPT ![t] = "idle"]
           ELSE /\ Finish(t)
                /\ UNCHANGED <<chain, lists, transactions, cachedBlock>>
    /\ UNCHANGED <<difficulty, nodes, cachedHash, now, last, lock, accepted>>

replace_chain_step(t) ==
    rc_start(t) \/ rc_iter(t) \/ rc_visit_of(t, ResponseTable) \/ rc_end(t)

\* request threads, miners and a thread resolving consensus
ConcMiners == {"m1"}

ConcThreads == Submitters \cup ConcMiners \cup Resolvers

InitConc == InitThreads(ConcThreads)

NextConc ==
    \/ \E t \in ConcThreads : get_previous_block_step(t)
    \/ \E t \in Submitters : add_transaction_step(t, PeerSubmit)
    \/ \E t \in ConcMiners : async_mine_block_step(t, PeerMined)
    \/ \E t \in Resolvers : replace_chain_step(t)
    \/ AddNode(OneAddress)

SpecConc == InitConc /\ [][NextConc]_vars

\* the answers of a peer that is slow: an error status, or a valid chain of
\* two blocks
SlowResponses(node, d) ==
    {[raises |-> FALSE, status |-> 500, length |-> 0, chain |-> <<>>],
     [raises |-> FALSE, status |-> 200, length |-> 2,
      chain |-> PeerChain(node, 2, d)]}

SlowTable == [d \in Difficulties |-> [n \in Peers |-> SlowResponses(n, d)]]

\* replace_chain with peers that may never answer
replace_chain_slow_step(t) ==
    \/ rc_start(t) \/ rc_iter(t) \/ rc_visit_of(t, SlowTable)
    \/ rc_hang(t) \/ rc_end(t)

StallSubmitter(t) ==
    add_transaction_step(t, PeerSubmit) \/ get_previous_block_step(t)

StallMiner(t) ==
    async_mine_block_step(t, PeerMined) \/ get_previous_block_step(t)

\* a submitter, a miner and a resolver whose peer may never answer
NextStall ==
    \/ \E t \in Submitters : StallSubmitter(t)
    \/ \E t \in ConcMiners : StallMiner(t)
    \/ \E t \in Resolvers : replace_chain_slow_step(t)
    \/ AddNode(OneAddress)

\* every thread that can run does run
SpecStall ==
    /\ InitConc
    /\ [][NextStall]_vars
    /\ \A t \in Submitters : WF_vars(StallSubmitter(t))
    /\ \A t \in ConcMiners : WF_vars(StallMiner(t))
    /\ \A t \in Resolvers : WF_vars(replace_chain_slow_step(t))

(* proof_of_work, blockchain.py lines 43-54, one candidate at a time *)

Searchers == {"w1"}

\* candidates from SearchCap on are not told apart
SearchCap == 25

\* previous proofs of the searches
SearchPrevious == 1..8

\* difficulties of the searches: the last one is longer than a digest
SearchDifficulties == {0, 1, DigestLength + 1}

\* a digest with k leading '0' characters
DigestWith(k) == [i \in 1..DigestLength |-> IF i <= k THEN 48 ELSE 102]

\* the digests candidate new_proof may have: the real one when it is in
\* the table, any digest otherwise
digests_of(new_proof, previous_proof) ==
    LET n == new_proof * new_proof - previous_proof * previous_proof
    IN  IF new_proof < SearchCap /\ InDigestTable(n)
        THEN {hexdigest(n)}
        ELSE {DigestWith(k) : k \in 0..DigestLength}

\* lines 44-46: new_proof = 1, check_proof = False, the target
pw_start(t) ==
    /\ pc[t] = "idle"
    /\ \E previous_proof \in SearchPrevious :
          loc' = [loc EXCEPT ![t].arg = previous_proof, ![t].proof = 1]
    /\ Goto(t, "pw_hash")
    /\ UNCHANGED <<ledgerVars, last, lock, accepted>>

\* lines 48-49: hash_operation = sha256(str(...)).hexdigest()
pw_hash(t) ==
    /\ pc[t] = "pw_hash"
    /\ \E digest \in digests_of(loc[t].proof, loc[t].arg) :
          Set(t, "hsh", Some(digest))
    /\ Goto(t, "pw_test")
    /\ UNCHANGED <<ledgerVars, last, lock, accepted>>

\* lines 50-54: the comparison with the target; the loop ends and the
\* proof is returned, or new_proof += 1
pw_test(t) ==
    /\ pc[t] = "pw_test"
    /\ IF Prefix(The(loc[t].hsh), difficulty) = target(difficulty)
       THEN Goto(t, "pw_done") /\ UNCHANGED loc
       ELSE /\ Set(t, "proof", IF loc[t].proof < SearchCap
                               THEN loc[t].proof + 1 ELSE SearchCap)
            /\ Goto(t, "pw_hash")
    /\ UNCHANGED <<ledgerVars, last, lock, accepted>>

proof_of_work_step(t) == pw_start(t) \/ pw_hash(t) \/ pw_test(t)

InitSearch ==
    /\ chain = <<[index |-> 1, timestamp |-> 0, proof |-> 1,
                  previous_hash |-> ZeroHash, transactions |-> 1]>>
    /\ lists = <<<<>>, <<>>>>
    /\ transactions = 2
    /\ difficulty \in SearchDifficulties
    /\ nodes = {}
    /\ cachedBlock = None
    /\ cachedHash = None
    /\ now = 1
    /\ last = Returned("init", None)
    /\ lock = None
    /\ pc = [t \in Searchers |-> "idle"]
    /\ loc = [t \in Searchers |-> NoLocals]
    /\ accepted = {}

NextSearch == \E t \in Searchers : proof_of_work_step(t)

\* a thread that runs proof_of_work keeps running
SpecSearch == InitSearch /\ [][NextSearch]_vars /\ WF_vars(NextSearch)

-----------------------------------------------------------------------------
(* Claims on the ledger used by one caller *)

\* the step is one of a call of replace_chain that waits for its peers: the
\* entry, the answer of a node, the return
ReplaceSteps == pc' # pc \/ loc' # loc

\* the step is the return of a call of replace_chain
ReplaceReturns ==
    /\ last'.op = "replace_chain"
    /\ ReplaceSteps \/ last' # last
    /\ \A t \in Resolvers : pc'[t] = "idle"

LinkedAt(c, i, d) ==
    /\ c[i].previous_hash = hash(c[i - 1])
    /\ DigestMeets(c[i].proof, c[i - 1].proof, d)

\* C1: after every add_transaction and batch_mine_pending_transactions call
\* on a fresh ledger, is_chain_valid(self.chain) returns True: every block
\* after the first carries the hash of the block before it and a proof that
\* meets the difficulty against that block's proof.
C1_BuiltChainValid ==
    /\ ~is_chain_valid_raises(ChainView(chain), difficulty)
    /\ is_chain_valid(ChainView(chain), difficulty)
    /\ \A i \in 2..Len(chain) : LinkedAt(ChainView(chain), i, difficulty)

\* two blocks mined one after the other, each with transactions
C1_Witness ==
    /\ Len(chain) >= 3
    /\ last.op = "batch_mine_pending_transactions"
    /\ \A i \in 2..Len(chain) : lists[chain[i].transactions] # <<>>

\* C2: every block appended by batch_mine_pending_transactions carries the
\* hash of the block that was chain[-1] just before the append, and a proof
\* found against that block's proof; also after replace_chain adopted a chain.
C2_MinedOnTop ==
    (last.op = "batch_mine_pending_transactions" /\ ~IsNone(last.ret)) =>
        LET n == Len(chain)
        IN  /\ chain[n].previous_hash = hash(BlockView(chain[n - 1]))
            /\ chain[n].proof = proof_of_work(chain[n - 1].proof, difficulty)

\* C3: replace_chain replaces the local chain only by a chain with strictly
\* more blocks than the local chain had and for which is_chain_valid holds.
C3_AdoptsLongerValid ==
    [][(ReplaceReturns /\ last'.ret = Some(TRUE)) =>
        /\ Len(chain') > Len(chain)
        /\ (is_chain_valid(ChainView(chain), difficulty))']_vars

\* C4: with N >= 1 transactions pending, batch_mine_pending_transactions
\* appends exactly one block holding exactly those N transactions in
\* submission order, returns that block, and leaves the pool empty.
C4_AtomicBatching ==
    [][(last'.op = "batch_mine_pending_transactions"
        /\ Len(lists[transactions]) >= 1) =>
        /\ Len(chain') = Len(chain) + 1
        /\ SubSeq(chain', 1, Len(chain)) = chain
        /\ lists'[Last(chain').transactions] = lists[transactions]
        /\ lists'[transactions'] = <<>>
        /\ last'.ret = Some(Last(chain'))]_vars

\* a block mined from two different pending transactions
C4_Witness ==
    /\ last.op = "batch_mine_pending_transactions"
    /\ ~IsNone(last.ret)
    /\ Len(lists[Last(chain).transactions]) = 2
    /\ lists[Last(chain).transactions][1] # lists[Last(chain).transactions][2]
    /\ lists[transactions] = <<>>

(* Claims on the ledger used by several threads *)

\* C5: once a block is in the chain, its index, timestamp, proof,
\* previous_hash and the contents of its transactions list never change,
\* whatever the interleaving of add_transaction calls with mining runs.
C5_AppendedBlocksFrozen ==
    [][\A i \in 1..Len(chain) :
          /\ i <= Len(chain')
          /\ chain'[i] = chain[i]
          /\ lists'[chain[i].transactions] = lists[chain[i].transactions]]_vars

\* C6: with unlocked get_previous_block calls interleaved with mining runs
\* under mining_lock, every block is appended on the real top of the chain:
\* its previous_hash is the hash of the block that is last when it is
\* appended, and its proof is the one found against that block's proof.
C6_ReadsLeaveWritesAlone ==
    [][Len(chain') = Len(chain) + 1 =>
          /\ Last(chain').index = Len(chain) + 1
          /\ Last(chain').proof = proof_of_work(Last(chain).proof, difficulty)
          /\ Last(chain').previous_hash = hash(BlockView(Last(chain)))]_vars

\* thread t is inside batch_mine_pending_transactions, create_block or
\* replace_chain: it has run the first statement and not yet returned
InsideWriter(t) ==
    \/ pc[t] \in {"bm_pow", "gh_test", "gh_write", "gh_ret", "cb_index",
                  "cb_txs", "cb_clear", "cb_append", "cb_cache1", "cb_cache2"}
    \/ /\ pc[t] \in {"gp_test", "gp_read", "gp_write", "gp_ret"}
       /\ loc[t].back \in {"bm_pow", "gh_write"}
    \/ pc[t] \in {"rc_iter", "rc_visit", "rc_end"}

\* C7: no two threads are at the same time inside
\* batch_mine_pending_transactions, create_block or replace_chain.
C7_OneWriterAtATime ==
    \A t, u \in DOMAIN pc : (InsideWriter(t) /\ InsideWriter(u)) => t = u

Occurrences(tx, list) == Cardinality({k \in DOMAIN list : list[k] = tx})

InPool(tx) == Occurrences(tx, lists[transactions])

InChain(tx) ==
    Cardinality({pos \in (1..Len(chain)) \X (1..MaxSubmit + 1) :
                   /\ pos[2] <= Len(lists[chain[pos[1]].transactions])
                   /\ lists[chain[pos[1]].transactions][pos[2]] = tx})

\* the miners holding a block that is built and not yet in the chain, after
\* the pool was replaced
Building == {t \in DOMAIN pc : pc[t] = "cb_append"}

\* C8: every transaction accepted by add_transaction is in the pool or in
\* exactly one block of the chain, or in the one block under construction;
\* it is never lost, never in two blocks, never in the pool and in a block.
C8_TransactionsConserved ==
    /\ Cardinality(Building) <= 1
    /\ \A tx \in accepted :
          \/ InPool(tx) + InChain(tx) = 1
          \/ /\ InPool(tx) + InChain(tx) = 0
             /\ \E t \in Building :
                   Occurrences(tx, lists[The(loc[t].blk).transactions]) = 1

\* one accepted transaction is in a mined block, the next one is in the
\* block being built, appended to it after the pool was replaced
C8_Witness ==
    /\ Cardinality(accepted) = 2
    /\ \E tx \in accepted : InChain(tx) = 1
    /\ \E tx \in accepted : \E t \in Building :
          /\ InPool(tx) + InChain(tx) = 0
          /\ Occurrences(tx, lists[The(loc[t].blk).transactions]) = 1

-----------------------------------------------------------------------------
(* Claims on the validator and the cache *)

\* the chain with one field of block i changed (tests.py, line 340)
TamperAmount(c, i, j) == [c EXCEPT ![i].transactions[j].a = 9999]
TamperPreviousHash(c, i) == [c EXCEPT ![i].previous_hash = <<48, 48>>]
TamperProof(c, i) == [c EXCEPT ![i].proof = @ + 1]

TamperSender(c, i, j) == [c EXCEPT ![i].transactions[j].s = Append(@, 33)]

\* C9: in a chain built by add_transaction and batch_mine, changing one
\* transaction field, the previous_hash or the proof of any block (the last
\* one included) makes is_chain_valid return False.
C9_TamperDetected ==
    Len(chain) >= 2 =>
        LET c == ChainView(chain)
        IN  \A i \in 1..Len(c) :
                /\ \A j \in 1..Len(c[i].transactions) :
                       /\ ~is_chain_valid(TamperAmount(c, i, j), difficulty)
                       /\ ~is_chain_valid(TamperSender(c, i, j), difficulty)
                /\ ~is_chain_valid(TamperPreviousHash(c, i), difficulty)
                /\ ~is_chain_valid(TamperProof(c, i), difficulty)

\* C10: in every state reached by add_transaction, batch_mine, create_block
\* and replace_chain calls, get_previous_block() returns the current last
\* block of self.chain, and a second call returns the same block.
C10_CacheCoherent ==
    /\ get_previous_block = Last(chain)
    /\ (last.op = "get_previous_block" => last.ret = Some(get_previous_block))

-----------------------------------------------------------------------------
(* Claims on the return values and the errors of the calls *)

\* C11: add_transaction returns the index of the block that is chain[-1] at
\* the time of the call plus one, also after replace_chain adopted a chain.
C11_ReturnsNextIndex ==
    last.op = "add_transaction" => last.ret = Some(Last(chain).index + 1)

\* the fetch of a peer fails: requests.get raises, or the status is not 200
FetchFails(r) == r.raises \/ r.status # 200

\* a peer offers a valid chain with more blocks than the local one, and
\* reports its true length
OffersLonger(r) ==
    /\ ~r.raises /\ r.status = 200
    /\ r.length = Len(r.chain)
    /\ Len(r.chain) > Len(chain)
    /\ ~is_chain_valid_raises(r.chain, difficulty)
    /\ is_chain_valid(r.chain, difficulty)

\* C12: a peer whose fetch fails is skipped and the pass goes on: whenever
\* every registered peer either fails or offers a longer valid chain, and
\* one of them offers one, replace_chain adopts a chain, in every order of
\* the node set.
C12_FailingPeerSkipped ==
    \A resp \in Answers(ResponseTable), order \in Orders(nodes) :
        (/\ \A n \in nodes : FetchFails(resp[n]) \/ OffersLonger(resp[n])
         /\ \E n \in nodes : OffersLonger(resp[n]))
        => adopts(replace_scan(order, resp, 1, replace_start, difficulty))

\* C13: whenever replace_chain does not return True (it returns False or
\* raises), self.chain and the pool are what they were before the call.
C13_FailedPassKeepsState ==
    [][((ReplaceSteps \/ ReplaceReturns)
            /\ ~(ReplaceReturns /\ last'.ret = Some(TRUE))) =>
          /\ chain' = chain
          /\ lists' = lists
          /\ transactions' = transactions]_vars

\* replace_chain raised on the empty chain of one of two peers, with a
\* mined or adopted chain and a pending transaction
C13_Witness ==
    /\ last.op = "replace_chain"
    /\ last.raised
    /\ last.error = "IndexError"
    /\ Cardinality(nodes) = 2
    /\ Len(chain) >= 2
    /\ lists[transactions] # <<>>

\* an argument of the call is missing
Malformed(args) ==
    IsNone(args.sender) \/ IsNone(args.receiver) \/ IsNone(args.amount)

\* C16: add_transaction with None for the sender, the receiver or the
\* amount is rejected, and the pool and the chain are as they were; the
\* chain that was valid is still valid.
C16_MalformedInputRejected ==
    [][(last'.op = "add_transaction" /\ Malformed(last'.args)) =>
          /\ last'.raised
          /\ chain' = chain
          /\ lists' = lists
          /\ transactions' = transactions
          /\ (is_chain_valid(ChainView(chain), difficulty))']_vars

\* C17: is_chain_valid reports every failure as False and never raises,
\* for every candidate, the empty one and one whose block lacks a field
\* included.
C17_ValidationNeverRaises ==
    last.op = "is_chain_valid" => ~last.raised

\* C18: is_chain_valid has no side effects: self.chain, the pool, the node
\* set, both cache slots and the lists of the blocks are unchanged by it.
C18_ValidationHasNoEffect ==
    [][last'.op = "is_chain_valid" =>
          /\ chain' = chain
          /\ lists' = lists
          /\ transactions' = transactions
          /\ nodes' = nodes
          /\ cachedBlock' = cachedBlock
          /\ cachedHash' = cachedHash
          /\ difficulty' = difficulty]_vars

\* an invalid candidate was rejected while the ledger has a mined block,
\* a pending transaction and a filled cache slot
C18_Witness ==
    /\ last.op = "is_chain_valid"
    /\ last.ret = Some(FALSE)
    /\ Len(chain) >= 2
    /\ lists[transactions] # <<>>
    /\ ~IsNone(cachedBlock)

-----------------------------------------------------------------------------
(* Claims on the proof-of-work search *)

\* C14: for every previous_proof and every difficulty in 0..3, proof_of_work
\* returns the smallest integer >= 1 whose digest of
\* str(new_proof**2 - previous_proof**2) begins with `difficulty` '0'
\* characters; for difficulty 0 it returns 1.
C14_LeastProof ==
    last.op = "proof_of_work" =>
        LET p == The(last.ret)
            q == last.arg
        IN  /\ p >= 1
            /\ DigestMeets(p, q, difficulty)
            /\ \A k \in 1..p - 1 : ~DigestMeets(k, q, difficulty)
            /\ difficulty = 0 => p = 1

\* a search at difficulty 3 that passed over candidates before it returned
C14_Witness ==
    /\ last.op = "proof_of_work"
    /\ difficulty = 3
    /\ The(last.ret) > 1

\* C15: proof_of_work always eventually terminates, for every finite
\* non-negative difficulty, one larger than the 64 characters of a digest
\* included.
C15_SearchTerminates ==
    \A t \in Searchers : (pc[t] = "pw_hash") ~> (pc[t] = "pw_done")

-----------------------------------------------------------------------------
(* Claims on the shape of the chain *)

\* C19: block indices are 1-based and consecutive: chain[0].index is 1 and
\* every block's index is one more than the index of the block before it.
C19_IndicesConsecutive ==
    /\ chain[1].index = 1
    /\ \A i \in 2..Len(chain) : chain[i].index = chain[i - 1].index + 1

\* C20: the chain is never empty, also after replace_chain met a peer that
\* returned an empty chain with an inflated length.
C20_ChainNeverEmpty == Len(chain) >= 1

\* replace_chain has met the empty chain with the inflated length
C20_Witness ==
    /\ last.op = "replace_chain"
    /\ last.raised
    /\ last.error = "IndexError"
    /\ nodes # {}

-----------------------------------------------------------------------------
(* Claims on what a single call does *)

\* C21: a freshly constructed Blockchain has exactly one block, with index
\* 1, proof 1, previous_hash '0' and no transactions; its pool is empty, its
\* node set is empty and both cache slots are unset.
C21_FreshLedger ==
    last.op = "init" =>
        /\ Len(chain) = 1
        /\ chain[1].index = 1
        /\ chain[1].proof = 1
        /\ chain[1].previous_hash = ZeroHash
        /\ lists[chain[1].transactions] = <<>>
        /\ lists[transactions] = <<>>
        /\ nodes = {}
        /\ IsNone(cachedBlock)
        /\ IsNone(cachedHash)

\* a ledger constructed in place of one that had mined a block or was
\* itself constructed in place of another
C21_Witness ==
    /\ last.op = "init"
    /\ now = 3

\* C22: batch_mine_pending_transactions called with an empty pool is a
\* no-op: it returns None and leaves the chain, the pool and both cache
\* slots unchanged.
C22_EmptyPoolNoOp ==
    [][(last'.op = "batch_mine_pending_transactions"
        /\ lists[transactions] = <<>>) =>
          /\ last'.ret = None
          /\ chain' = chain
          /\ lists' = lists
          /\ transactions' = transactions
          /\ cachedBlock' = cachedBlock
          /\ cachedHash' = cachedHash
          /\ now' = now]_vars

\* the call returned None on a ledger with a mined block and a filled
\* cache slot
C22_Witness ==
    /\ last.op = "batch_mine_pending_transactions"
    /\ IsNone(last.ret)
    /\ Len(chain) >= 2
    /\ ~IsNone(cachedBlock)
    /\ lists[transactions] = <<>>

\* C23: create_block(proof, previous_hash) increases len(chain) by exactly
\* one, leaves all earlier blocks in place, gives the new block index ==
\* old len(chain) + 1 and the given proof and previous_hash, moves the whole
\* current pool into the block's transactions, empties the pool, and resets
\* both cache slots to unset unconditionally.
C23_CreateBlockEffect ==
    [][last'.op = "create_block" =>
          /\ Len(chain') = Len(chain) + 1
          /\ SubSeq(chain', 1, Len(chain)) = chain
          /\ \A i \in 1..Len(chain) :
                lists'[chain[i].transactions] = lists[chain[i].transactions]
          /\ Last(chain').index = Len(chain) + 1
          /\ Last(chain').proof = last'.args.proof
          /\ Last(chain').previous_hash = last'.args.previous_hash
          /\ Last(chain').transactions = transactions
          /\ lists'[Last(chain').transactions] = lists[transactions]
          /\ lists'[transactions'] = <<>>
          /\ last'.ret = Some(Last(chain'))
          /\ IsNone(cachedBlock')
          /\ IsNone(cachedHash')]_vars

\* a third block created from two different pending transactions behind a
\* block that holds a transaction, with a proof and a previous_hash that do
\* not fit the chain, and stamped with the time of the block before it
C23_Witness ==
    /\ last.op = "create_block"
    /\ Len(chain) = 3
    /\ last.args.previous_hash = ZeroHash
    /\ Len(lists[chain[3].transactions]) = 2
    /\ lists[chain[3].transactions][1] # lists[chain[3].transactions][2]
    /\ lists[chain[2].transactions] # <<>>
    /\ chain[3].timestamp = chain[2].timestamp
    /\ lists[transactions] = <<>>

\* C24: a successful add_transaction appends exactly one transaction to the
\* end of the pool (the pool grows by one, the earlier pending transactions
\* keep their order and content) and leaves the chain unchanged.
C24_AppendsToPool ==
    [][last'.op = "add_transaction" =>
          LET before == lists[transactions]
              after == lists'[transactions']
          IN  /\ transactions' = transactions
              /\ Len(after) = Len(before) + 1
              /\ SubSeq(after, 1, Len(before)) = before
              /\ chain' = chain
              /\ \A i \in 1..Len(chain) :
                    lists'[chain[i].transactions]
                        = lists[chain[i].transactions]]_vars

\* a second, different transaction was appended behind a pending one, on a
\* chain with a mined block
C24_Witness ==
    /\ last.op = "add_transaction"
    /\ Len(chain) >= 2
    /\ Len(lists[transactions]) = 2
    /\ lists[transactions][1] # lists[transactions][2]

-----------------------------------------------------------------------------
(* Claims on the consensus resolver *)

\* the chains the registered peers may supply
Supplied ==
    {r.chain : r \in {x \in UNION {ResponseTable[difficulty][n] : n \in nodes} :
                         ~x.raises /\ x.status = 200}}

\* C25: replace_chain returns True if and only if it replaced the local
\* chain; when it returns False the local chain is the same as before the
\* call, and when it returns True the local chain is exactly the chain
\* supplied by one of the registered peers.
C25_TrueIffReplaced ==
    [][/\ ReplaceReturns =>
             /\ last'.raised \/ last'.ret \in {Some(TRUE), Some(FALSE)}
             /\ last'.ret = Some(FALSE) =>
                   (chain' = chain /\ lists' = lists)
             /\ last'.ret = Some(TRUE) => (ChainView(chain))' \in Supplied
       /\ (ReplaceSteps /\ chain' # chain) =>
             (ReplaceReturns /\ last'.ret = Some(TRUE))]_vars

\* with two peers registered, a pass returned True and left the three
\* blocks of a peer as the local chain
C25_Witness ==
    /\ last.op = "replace_chain"
    /\ last.ret = Some(TRUE)
    /\ Cardinality(nodes) = 2
    /\ Len(chain) = 3
    /\ ChainView(chain) \in Supplied

\* the answer r is a candidate for a ledger of local_length blocks: status
\* 200, a reported length above the local one, a chain that is_chain_valid
\* accepts
Qualifies(r, local_length) ==
    /\ ~r.raises
    /\ r.status = 200
    /\ r.length > local_length
    /\ ~is_chain_valid_raises(r.chain, difficulty)
    /\ is_chain_valid(r.chain, difficulty)

\* the last state is the one a pass that adopted a chain has left
Adopted == last.op = "replace_chain" /\ last.ret = Some(TRUE)

\* the nodes whose answer qualified in that pass
Qualifiers ==
    {n \in DOMAIN last.met.resp :
        Qualifies(last.met.resp[n], last.met.local_length)}

\* those of them that reported the greatest length
Longest ==
    {n \in Qualifiers :
        \A m \in Qualifiers :
            last.met.resp[m].length <= last.met.resp[n].length}

\* the position at which the pass visited node n
Position(n) == CHOOSE i \in DOMAIN last.met.order : last.met.order[i] = n

\* C26: when replace_chain adopts a chain, the adopted candidate is a
\* longest one among all qualifying peers: no registered peer that answered
\* with status 200, a reported length greater than the local length and a
\* chain passing is_chain_valid reported a strictly greater length than the
\* adopted candidate, for every iteration order of the peer set.
C26_AdoptsALongest ==
    Adopted =>
        \E n \in Longest : ChainView(chain) = last.met.resp[n].chain

\* the pass met the longer of two qualifying chains first and the shorter
\* one after it
C26_Witness ==
    /\ Adopted
    /\ Cardinality(Qualifiers) = 2
    /\ Cardinality(Longest) = 1
    /\ \A n \in Longest : Position(n) = 1
    /\ Len(chain) = 3

\* the node of a set that the pass visited first, and the one it visited last
FirstOf(S) == CHOOSE n \in S : \A m \in S : Position(n) <= Position(m)
LastOf(S) == CHOOSE n \in S : \A m \in S : Position(m) <= Position(n)

\* C27 as stated: when several peers offer equally-longest valid candidate
\* chains, replace_chain keeps the last such qualifying candidate seen in
\* the iteration order of the peer set.
C27_KeepsLastOfTies ==
    (Adopted /\ Cardinality(Longest) >= 2) =>
        ChainView(chain) = last.met.resp[LastOf(Longest)].chain

\* C27 as amended: when several peers offer equally-longest valid candidate
\* chains and replace_chain adopts one, it keeps the first such qualifying
\* candidate seen in the iteration order of the peer set.
C27_KeepsFirstOfTies ==
    (Adopted /\ Cardinality(Longest) >= 2) =>
        ChainView(chain) = last.met.resp[FirstOf(Longest)].chain

\* two peers offered different valid chains of the same reported length and
\* the pass adopted one of them
C27_Witness ==
    /\ Adopted
    /\ Cardinality(Longest) = 2
    /\ last.met.resp[FirstOf(Longest)].chain
           # last.met.resp[LastOf(Longest)].chain
    /\ Len(chain) = 3

-----------------------------------------------------------------------------
(* Claims on the transaction add_transaction stores *)

\* the last state is the one a successful add_transaction call has left
Stored == last.op = "add_transaction" /\ ~last.raised

\* the string kept is the string given, cut after eight characters
CutAtEight(kept, given) ==
    /\ Len(kept) = (IF Len(given) > 8 THEN 8 ELSE Len(given))
    /\ \A i \in 1..Len(kept) : kept[i] = given[i]

\* the transactions of the pool
Pooled == {lists[transactions][k] : k \in 1..Len(lists[transactions])}

\* C28: for every sender and receiver string, add_transaction stores 's'
\* and 'r' as the first 8 characters of the input when it is longer than 8
\* characters and as the unchanged input otherwise (so every pooled
\* transaction has 's' and 'r' of at most 8 characters), and stores the
\* amount unchanged in 'a'.
C28_CutsAtEight ==
    /\ Stored =>
          LET tx == Last(lists[transactions])
          IN  /\ CutAtEight(tx.s, The(last.args.sender))
              /\ CutAtEight(tx.r, The(last.args.receiver))
              /\ tx.a = last.args.amount
    /\ \A tx \in Pooled : Len(tx.s) <= 8 /\ Len(tx.r) <= 8

\* a sender of eight characters was kept whole and a receiver of nine cut
C28_Witness ==
    /\ Stored
    /\ Len(The(last.args.sender)) = 8
    /\ Len(The(last.args.receiver)) = 9
    /\ Last(lists[transactions]).s = Letters(8)
    /\ Last(lists[transactions]).r = Letters(8)

\* C29: add_transaction records type 'watermark' whenever a metadata
\* argument is supplied (for every supplied mapping, an empty one included)
\* and 'mining' only when none is supplied; a 'watermark' transaction
\* carries img_hash and msg_hash equal to the first 16 characters of the
\* supplied image_hash and message_hash, plus timestamp and size.
C29_TypeFromMetadata ==
    Stored =>
        LET tx == Last(lists[transactions])
            metadata == last.args.metadata
        IN  /\ tx.type = (IF IsNone(metadata) THEN "mining" ELSE "watermark")
            /\ tx.type = "watermark" =>
                  /\ {"img_hash", "msg_hash", "timestamp", "size"}
                        \subseteq DOMAIN tx
                  /\ tx.img_hash =
                        Prefix(Get(The(metadata), "image_hash", EmptyStr), 16)
                  /\ tx.msg_hash =
                        Prefix(Get(The(metadata), "message_hash", EmptyStr), 16)

-----------------------------------------------------------------------------
(* Claims on the canonical hasher *)

\* C30: the block hash is deterministic and order-independent: hashing the
\* same block twice gives the same digest, and two blocks with equal field
\* values (recursively, the transaction list included) hash identically
\* regardless of the order in which their fields were inserted; the hash
\* depends on nothing but the block's stored field values.
C30_HashOrderIndependent ==
    last.op = "hash" =>
        \A view \in Hashable, order \in InsertionOrders :
            LET again == hash_dict(as_dict(view, order))
            IN  /\ view = as_view(last.arg) => again = The(last.ret)
                /\ (again = The(last.ret))
                      <=> (hash(view) = hash(as_view(last.arg)))

\* a mined block with a watermark transaction was hashed from a dict built
\* in the reverse of the order in which the code inserts the fields
C30_Witness ==
    /\ last.op = "hash"
    /\ last.arg.keys = Reverse(BlockNames)
    /\ last.arg.vals.index = 2
    /\ Len(last.arg.vals.transactions) = 1
    /\ last.arg.vals.transactions[1].vals.type = "watermark"
    /\ last.arg.vals.transactions[1].keys = Reverse(TxNames)
    /\ The(last.ret) = hash_dict(as_dict(BlockView(chain[2]), "code"))

-----------------------------------------------------------------------------
(* Claims on slow peers and the mining lock *)

\* C31: a thread inside replace_chain never holds mining_lock, so no peer is
\* fetched under the lock; and while replace_chain waits for a peer that
\* does not answer, a miner that is ready to run acquires the lock.
C31_PeersNeverStallMining ==
    /\ [](\A t \in Resolvers :
             pc[t] \in {"rc_iter", "rc_visit", "rc_wait", "rc_end"}
                 => lock # Some(t))
    /\ \A t \in Resolvers, m \in ConcMiners :
          (pc[t] = "rc_wait" /\ pc[m] = "idle" /\ now <= PeerMined)
              ~> (lock = Some(m))

\* the miner appends a block while replace_chain waits for its peer
C31_Witness ==
    \E t \in Resolvers, m \in ConcMiners :
        /\ pc[t] = "rc_wait"
        /\ lock = Some(m)
        /\ pc[m] = "cb_append"

\* C32: every fetch of a peer is bounded: a replace_chain call that has
\* started its pass over the peers eventually returns, also when a
\* registered peer never answers.
C32_FetchBounded ==
    \A t \in Resolvers :
        (pc[t] \in {"rc_visit", "rc_wait"}) ~> (pc[t] = "idle")

-----------------------------------------------------------------------------
(* Claims on the registry of peers *)

\* C33: add_node(address) leaves in self.nodes what was there and the
\* network location of the address, once: a location that was registered
\* before leaves the set as it was, a new one makes it one larger; the
\* chain, the pool and the cache slots are as before the call.
C33_AddNodeIdempotent ==
    [][last'.op = "add_node" =>
        LET location == netloc_of(last'.arg)
        IN  /\ location \in nodes'
            /\ nodes \subseteq nodes'
            /\ location \in nodes => nodes' = nodes
            /\ Cardinality(nodes') =
                   Cardinality(nodes) + (IF location \in nodes THEN 0 ELSE 1)
            /\ UNCHANGED <<chain, transactions, lists, difficulty,
                           cachedBlock, cachedHash, now>>]_vars

\* an address registered again, under another path, with two locations in
\* the set, pending transactions and a filled cache slot
C33_Witness ==
    /\ last.op = "add_node"
    /\ netloc_of(last.arg) \in last.met
    /\ last.arg.path # ""
    /\ Cardinality(nodes) >= 2
    /\ lists[transactions] # <<>>
    /\ ~IsNone(cachedHash)

-----------------------------------------------------------------------------
(* Claims on the requests that add a transaction and the miners they start *)

\* C34: every transaction whose add_transaction is followed by the start of
\* a miner thread is eventually in a block of the chain, under every
\* interleaving of two submitting threads and their miners, with fair
\* scheduling and no chain replacement.
C34_TriggeredIsMined ==
    \A t \in StressWorkers :
        (pc[SpawnedBy[t]] # "new")
            ~> (~IsNone(loc[t].tx) /\ InChain(The(loc[t].tx)) >= 1)

\* C36: mining_lock is held only by a thread that is inside the with block
\* of async_mine_block, so it is free once the thread has finished, whether
\* nothing was pending, a block was mined or a call raised; and every
\* thread that waits for the lock eventually holds it.
C36_LockAlwaysReleased ==
    /\ [](\A t \in Spawned :
             pc[t] \in {"new", "m_wait", "idle"} => lock # Some(t))
    /\ \A t \in Spawned : (pc[t] = "m_wait") ~> (lock = Some(t))

\* a miner holds the lock after the other one found nothing pending, and
\* after it mined a block
C36_Witness ==
    \E t, u \in Spawned :
        /\ lock = Some(t)
        /\ pc[t] = "m_unlock"
        /\ pc[u] = "idle"
        /\ Len(chain) = 2

-----------------------------------------------------------------------------
(* Claims on what replace_chain and the miner leave behind *)

\* the block a cache slot holds, with the transactions of its list
Cached(slot, heap) ==
    IF IsNone(slot) THEN None
    ELSE Some([The(slot) EXCEPT !.transactions = heap[@]])

\* C37: a replace_chain call, whether it adopts a chain, returns False or
\* raises, leaves the pending transactions, the node set, the difficulty
\* and both cache slots as they were: only self.chain may differ.
C37_ReplaceKeepsPoolAndNodes ==
    [][(ReplaceSteps \/ ReplaceReturns) =>
        /\ lists'[transactions'] = lists[transactions]
        /\ nodes' = nodes
        /\ difficulty' = difficulty
        /\ cachedHash' = cachedHash
        /\ Cached(cachedBlock', lists') = Cached(cachedBlock, lists)]_vars

\* a chain was adopted while a transaction was pending
C37_Witness ==
    /\ last.op = "replace_chain"
    /\ last.ret = Some(TRUE)
    /\ lists[transactions] # <<>>
    /\ Len(chain) = 3

\* thread t is inside batch_mine_pending_transactions after the call of
\* get_previous_hash_cached (line 107) filled the slot and before
\* create_block cleared it (line 30)
HoldsCachedHash(t) ==
    pc[t] \in {"gh_ret", "cb_index", "cb_txs", "cb_clear", "cb_append",
               "cb_cache1", "cb_cache2"}

\* C38: the slot _cached_previous_hash is set only while a thread is inside
\* batch_mine_pending_transactions, between the call that fills it and the
\* create_block call that clears it; that thread holds mining_lock.  Every
\* call of get_previous_hash_cached finds the slot unset, so no cached hash
\* is used by a later operation.
C38_HashSlotUnsetOutsideMining ==
    /\ ~IsNone(cachedHash) =>
          \E t \in DOMAIN pc : lock = Some(t) /\ HoldsCachedHash(t)
    /\ \A t \in DOMAIN pc : pc[t] = "gh_test" => IsNone(cachedHash)

\* the slot is unset again while the second miner computes the hash of the
\* block the first one appended
C38_Witness ==
    /\ IsNone(cachedHash)
    /\ Len(chain) = 2
    /\ \E t \in DOMAIN pc : pc[t] = "gh_test" /\ lock = Some(t)

====
